---------------------------- MODULE Spec2Model ----------------------------
(***************************************************************************)
(* Pinlab (LEXUGE/pinbrd): the promise bridge and the application frame    *)
(* (src/src/main.rs), the pinboard buffer (src/src/pinboard.rs), the       *)
(* markdown previewer (src/src/previewer.rs) and blob identity and repair  *)
(* (src/src/graph.rs), as state machines.                                  *)
(*                                                                         *)
(*   Spec        PinlabApp::update frame by frame, driven through the menu *)
(*               bar and the windows (close, graph widget events), with    *)
(*               the open and repair tasks finishing in the background,    *)
(*               and MarkdownPreviwer beside it.                           *)
(*   SpecBuffer  the same frame on one pinboard window, driven through     *)
(*               the window alone: save, add node, close, widget events,   *)
(*               with every task of the buffer finishing in the background.*)
(*   SpecRegistry the application driven through what makes, names, fills, *)
(*               saves, closes and re-opens pinboards: New, Open..., the   *)
(*               rename dialog, add node, save, close, with the open, save *)
(*               and add tasks finishing in the background.                *)
(*   SpecLoad    the same with New, Open..., save and close alone.         *)
(*   SpecRoundTrip one window holding a pinboard with nodes and an edge,   *)
(*               saved and opened again.                                   *)
(*   SpecEdit    one window on a saved pinboard whose graph is edited:     *)
(*               nodes added, selected, moved and deleted, edges made,     *)
(*               relabelled and deleted, blobs picked and repaired.        *)
(*   SpecConnect one window on a pinboard of two bare nodes: select,       *)
(*               connect, change relation, delete, add one node.           *)
(*   SpecRepair  one window on a pinboard of one node carrying a blob:     *)
(*               double click, select, delete and add again while the      *)
(*               repairs run.                                              *)
(*   SpecEvents  one window on a saved pinboard whose node holds a file:   *)
(*               the widget reports several interactions a frame.         *)
(*   SpecBridge  handle_promise on one slot, polled at arbitrary moments.  *)
(*   SpecBlob    Blob::new / Blob::update / Blob::walk over a file system  *)
(*               that changes between the calls.                           *)
(*                                                                         *)
(* A frame is one step.  A task started in a frame finishes no earlier     *)
(* than between the two loops over boards_to_open of that frame.           *)
(***************************************************************************)
EXTENDS Integers, Sequences, FiniteSets, TLC

(***************************************************************************)
(* Bounds of the model.                                                    *)
(***************************************************************************)
\* Entries (files and directories) that exist below the search root at once.
MaxEntries == 4

(***************************************************************************)
(* Option<T>: None is the empty sequence, Some(x) the one-element one.     *)
(***************************************************************************)
None == <<>>
Some(x) == <<x>>
IsSome(o) == o # None
Unwrap(o) == o[1]

VARIABLES
    \* ---- blob identity & repair (graph.rs) ----
    fs,      \* the file system below the search root: path -> entry
    blob,    \* Option<Blob>: the blob under test
    ret,     \* what the last Blob::new / Blob::update call did
    \* ---- background tasks behind the promises (poll_promise) ----
    tasks,   \* every task spawned so far, by id (its position)
    \* ---- one promise slot polled by handle_promise (main.rs) ----
    slot,    \* Option<Promise<T>>: the slot handle_promise is given
    handler, \* the handler given to handle_promise: result -> output
    polls,   \* what each handle_promise call saw and returned
    \* ---- PinlabApp (main.rs) and MarkdownPreviwer (previewer.rs) ----
    pinboards,        \* HashMap<Uuid, (PinboardBuffer, bool)>
    boards_to_open,   \* Vec<Option<Promise<Result<PinboardBuffer>>>>
    append_promises,  \* Vec<Option<Promise<Result<MarkdownBuffer>>>>
    buffers,          \* Vec<MarkdownBuffer>
    disk,             \* the .pinbrd files: path -> Option<Pinboard>
    panicked,         \* a panic unwound out of the frame
    frame             \* what the last frame's pass over boards_to_open did

blobVars == <<fs, blob, ret>>
bridgeVars == <<slot, handler, polls>>
appVars == <<pinboards, boards_to_open, append_promises, buffers, disk,
             panicked, frame>>
vars == <<fs, blob, ret, tasks, slot, handler, polls, pinboards, boards_to_open,
          append_promises, buffers, disk, panicked, frame>>

(***************************************************************************)
(* The file system (the environment of graph.rs).  A path is the sequence  *)
(* of names below the search root; the root itself is the empty path and   *)
(* is always a listable directory ("NOTE: root must be a folder").         *)
(***************************************************************************)
\* The places an entry can be at: two names per directory, nesting up to
\* three levels below the root in one branch.
Names == {1, 2}
NameOrder == <<1, 2>>
Paths == {<<1>>, <<2>>, <<1, 1>>, <<1, 2>>, <<2, 1>>, <<1, 1, 1>>}
\* The distinct file contents.
Contents == {1, 2}
Root == <<>>

\* hid: what hf::is_hidden answers for the entry ("no", "yes", "err").
\* denied: a file that cannot be read, a directory that cannot be listed
\* nor searched.
NoEntry == [kind |-> "none", hid |-> "no", denied |-> FALSE, content |-> 0]
FileEntry(c, h, d) == [kind |-> "file", hid |-> h, denied |-> d, content |-> c]
DirEntry(h, d) == [kind |-> "dir", hid |-> h, denied |-> d, content |-> 0]
HidValues == {"no", "yes", "err"}

Parent(p) == SubSeq(p, 1, Len(p) - 1)
Prefix(p, i) == SubSeq(p, 1, i)
Present(f) == {p \in Paths : f[p].kind # "none"}
Faulty(f) == {p \in Present(f) : f[p].hid # "no" \/ f[p].denied}
ChildrenOf(f, d) == {p \in Present(f) : Len(p) = Len(d) + 1 /\ Parent(p) = d}

\* stat(2): "ok", or why the path cannot be resolved.
stat(f, p) ==
    LET bad == {i \in 1..(Len(p) - 1) :
                    f[Prefix(p, i)].kind # "dir" \/ f[Prefix(p, i)].denied}
    IN  IF bad # {}
        THEN LET i == CHOOSE j \in bad : \A k \in bad : j <= k
                 e == f[Prefix(p, i)]
             IN  IF e.kind = "none" THEN "notfound"
                 ELSE IF e.kind = "file" THEN "notdir"
                 ELSE "denied"
        ELSE IF p # Root /\ f[p].kind = "none" THEN "notfound" ELSE "ok"

\* Path::is_dir: false on any error.
is_dir(f, p) ==
    IF p = Root THEN TRUE ELSE stat(f, p) = "ok" /\ f[p].kind = "dir"

\* Path::try_exists: Ok(true), Ok(false) only for NotFound, Err otherwise.
try_exists(f, p) ==
    LET s == stat(f, p)
    IN  IF s = "ok" THEN "true" ELSE IF s = "notfound" THEN "false" ELSE "err"

\* blake3::hash of a file's bytes: equal hashes exactly for equal contents.
blake3_hash(c) == <<"blake3", c>>

\* std::fs::read: the content, or None for an I/O error.
fs_read(f, p) ==
    IF p # Root /\ stat(f, p) = "ok" /\ f[p].kind = "file" /\ ~f[p].denied
    THEN Some(f[p].content)
    ELSE None

\* std::fs::read_dir: the entries in the order the platform yields them
\* (ascending or descending by name here), or None for an I/O error.
read_dir(f, d, rev) ==
    IF d # Root /\ f[d].denied
    THEN None
    ELSE LET n == Len(NameOrder)
             nth(i) == IF rev THEN NameOrder[n + 1 - i] ELSE NameOrder[i]
             all == [i \in 1..n |-> Append(d, nth(i))]
             here(p) == IF p \in Paths THEN f[p].kind # "none" ELSE FALSE
         IN  Some(SelectSeq(all, here))

(***************************************************************************)
(* graph.rs: Blob                                                          *)
(***************************************************************************)
BlobType == {"PinboardGraph", "File"}
Blob(ty, path, hash) == [ty |-> ty, path |-> path, hash |-> hash]

\* Mutant of Blob::new: a file that cannot be read counts as empty
\* (unwrap_or_default).
Blob_new_unwrap_or_default(f, ty, path) ==
    LET content == fs_read(f, path)
    IN  [ok |-> TRUE,
         blob |-> Some(Blob(ty, path,
                            blake3_hash(IF content = None THEN 0
                                        ELSE Unwrap(content))))]

\* Blob::new: Ok(blob) or Err.
Blob_new(f, ty, path) ==
    LET content == fs_read(f, path)
    IN  IF content = None
        THEN [ok |-> FALSE, blob |-> None]
        ELSE [ok |-> TRUE,
              blob |-> Some(Blob(ty, path, blake3_hash(Unwrap(content))))]

RECURSIVE walk(_, _, _, _)
RECURSIVE walk_entries(_, _, _, _, _)

\* Mutant of not_hidden: a failed hidden-check counts as "not hidden"
\* (unwrap_or(false)).
not_hidden_unwrap_or_false(f, p) == f[p].hid # "yes"

\* !hf::is_hidden(&path).unwrap_or(true)
not_hidden(f, p) == f[p].hid = "no"

\* Mutant of walk_entries: sub-directories are not descended into.
RECURSIVE walk_entries_flat(_, _, _, _, _)
walk_entries_flat(f, es, hash, rev, acc) ==
    IF es = <<>> \/ acc.err # ""
    THEN acc
    ELSE LET path == Head(es)
             rest == Tail(es)
         IN  IF ~not_hidden(f, path) \/ is_dir(f, path)
             THEN walk_entries_flat(f, rest, hash, rev, acc)
             ELSE LET content == fs_read(f, path)
                  IN  IF content = None
                      THEN [acc EXCEPT !.err = "io"]
                      ELSE IF blake3_hash(Unwrap(content)) = hash
                      THEN walk_entries_flat(f, rest, hash, rev,
                               [acc EXCEPT !.res = Some(path), !.count = @ + 1])
                      ELSE walk_entries_flat(f, rest, hash, rev, acc)

\* Mutant of walk_entries: the comparison with the hash is missing, every
\* readable visible file matches.
RECURSIVE walk_entries_no_compare(_, _, _, _, _)
walk_entries_no_compare(f, es, hash, rev, acc) ==
    IF es = <<>> \/ acc.err # ""
    THEN acc
    ELSE LET path == Head(es)
             rest == Tail(es)
         IN  IF ~not_hidden(f, path)
             THEN walk_entries_no_compare(f, rest, hash, rev, acc)
             ELSE IF is_dir(f, path)
             THEN LET r == walk(f, path, hash, rev)
                  IN  IF r.err # ""
                      THEN [acc EXCEPT !.err = r.err]
                      ELSE IF IsSome(r.res)
                      THEN walk_entries_no_compare(f, rest, hash, rev,
                               [acc EXCEPT !.res = r.res, !.count = @ + 1])
                      ELSE walk_entries_no_compare(f, rest, hash, rev, acc)
             ELSE LET content == fs_read(f, path)
                  IN  IF content = None
                      THEN [acc EXCEPT !.err = "io"]
                      ELSE walk_entries_no_compare(f, rest, hash, rev,
                               [acc EXCEPT !.res = Some(path), !.count = @ + 1])

\* The body of the for loop of Blob::walk over the entries still to visit;
\* acc holds count, res and the error that ended the loop ("" for none).
walk_entries(f, es, hash, rev, acc) ==
    IF es = <<>> \/ acc.err # ""
    THEN acc
    ELSE LET path == Head(es)
             rest == Tail(es)
         IN  IF ~not_hidden(f, path)
             THEN walk_entries(f, rest, hash, rev, acc)
             ELSE IF is_dir(f, path)
             THEN LET r == walk(f, path, hash, rev)
                  IN  IF r.err # ""
                      THEN [acc EXCEPT !.err = r.err]
                      ELSE IF IsSome(r.res)
                      THEN walk_entries(f, rest, hash, rev,
                               [acc EXCEPT !.res = r.res, !.count = @ + 1])
                      ELSE walk_entries(f, rest, hash, rev, acc)
             ELSE LET content == fs_read(f, path)
                  IN  IF content = None
                      THEN [acc EXCEPT !.err = "io"]
                      ELSE IF blake3_hash(Unwrap(content)) = hash
                      THEN walk_entries(f, rest, hash, rev,
                               [acc EXCEPT !.res = Some(path), !.count = @ + 1])
                      ELSE walk_entries(f, rest, hash, rev, acc)

\* Mutant of walk: the count > 1 check is missing, the last match wins.
walk_last_match(f, dir, hash, rev) ==
    LET start == [count |-> 0, res |-> None, err |-> ""]
        entries == read_dir(f, dir, rev)
        acc == IF ~is_dir(f, dir) THEN start
               ELSE IF entries = None THEN [start EXCEPT !.err = "io"]
               ELSE walk_entries(f, Unwrap(entries), hash, rev, start)
    IN  IF acc.err # "" THEN [err |-> acc.err, res |-> None]
        ELSE [err |-> "", res |-> acc.res]

\* Blob::walk: [err |-> "" (Ok), "io" or "multi", res |-> Option<PathBuf>].
walk(f, dir, hash, rev) ==
    LET start == [count |-> 0, res |-> None, err |-> ""]
        entries == read_dir(f, dir, rev)
        acc == IF ~is_dir(f, dir) THEN start
               ELSE IF entries = None THEN [start EXCEPT !.err = "io"]
               ELSE walk_entries(f, Unwrap(entries), hash, rev, start)
    IN  IF acc.err # "" THEN [err |-> acc.err, res |-> None]
        ELSE IF acc.count > 1 THEN [err |-> "multi", res |-> None]
        ELSE [err |-> "", res |-> acc.res]

\* Mutant of update: no file matching the hash is an error, as the doc
\* comment of update has it.
update_err_on_miss(f, b, root, rev) ==
    LET e == try_exists(f, b.path)
    IN  IF e = "true"
        THEN LET content == fs_read(f, b.path)
             IN  IF content = None
                 THEN [blob |-> b, ok |-> FALSE, walked |-> FALSE]
                 ELSE [blob |-> [b EXCEPT !.hash = blake3_hash(Unwrap(content))],
                       ok |-> TRUE, walked |-> FALSE]
        ELSE IF e = "false"
        THEN LET w == walk(f, root, b.hash, rev)
             IN  IF w.err # "" \/ w.res = None
                 THEN [blob |-> b, ok |-> FALSE, walked |-> TRUE]
                 ELSE [blob |-> [b EXCEPT !.path = Unwrap(w.res)],
                       ok |-> TRUE, walked |-> TRUE]
        ELSE [blob |-> b, ok |-> TRUE, walked |-> FALSE]

\* Mutant of update: an existing path is trusted together with its old hash.
update_keep_hash(f, b, root, rev) ==
    LET e == try_exists(f, b.path)
    IN  IF e = "true"
        THEN [blob |-> b, ok |-> fs_read(f, b.path) # None, walked |-> FALSE]
        ELSE IF e = "false"
        THEN LET w == walk(f, root, b.hash, rev)
             IN  IF w.err # ""
                 THEN [blob |-> b, ok |-> FALSE, walked |-> TRUE]
                 ELSE IF IsSome(w.res)
                 THEN [blob |-> [b EXCEPT !.path = Unwrap(w.res)],
                       ok |-> TRUE, walked |-> TRUE]
                 ELSE [blob |-> b, ok |-> TRUE, walked |-> TRUE]
        ELSE [blob |-> b, ok |-> TRUE, walked |-> FALSE]

\* Mutant of update: an error of the walk is swallowed
\* (if let Ok(Some(path)) = walk(..)).
update_ignore_walk_error(f, b, root, rev) ==
    LET e == try_exists(f, b.path)
    IN  IF e = "true"
        THEN LET content == fs_read(f, b.path)
             IN  IF content = None
                 THEN [blob |-> b, ok |-> FALSE, walked |-> FALSE]
                 ELSE [blob |-> [b EXCEPT !.hash = blake3_hash(Unwrap(content))],
                       ok |-> TRUE, walked |-> FALSE]
        ELSE IF e = "false"
        THEN LET w == walk(f, root, b.hash, rev)
             IN  IF w.err = "" /\ IsSome(w.res)
                 THEN [blob |-> [b EXCEPT !.path = Unwrap(w.res)],
                       ok |-> TRUE, walked |-> TRUE]
                 ELSE [blob |-> b, ok |-> TRUE, walked |-> TRUE]
        ELSE [blob |-> b, ok |-> TRUE, walked |-> FALSE]

\* Mutant of update: a failed existence check is taken for "does not
\* exist" (exists() in place of try_exists()).
update_walk_on_err(f, b, root, rev) ==
    LET e == try_exists(f, b.path)
    IN  IF e = "true"
        THEN LET content == fs_read(f, b.path)
             IN  IF content = None
                 THEN [blob |-> b, ok |-> FALSE, walked |-> FALSE]
                 ELSE [blob |-> [b EXCEPT !.hash = blake3_hash(Unwrap(content))],
                       ok |-> TRUE, walked |-> FALSE]
        ELSE LET w == walk(f, root, b.hash, rev)
             IN  IF w.err # ""
                 THEN [blob |-> b, ok |-> FALSE, walked |-> TRUE]
                 ELSE IF IsSome(w.res)
                 THEN [blob |-> [b EXCEPT !.path = Unwrap(w.res)],
                       ok |-> TRUE, walked |-> TRUE]
                 ELSE [blob |-> b, ok |-> TRUE, walked |-> TRUE]

\* Blob::update(&mut self, root): the blob afterwards, Ok or Err, and
\* whether the search root was walked.
update(f, b, root, rev) ==
    LET e == try_exists(f, b.path)
    IN  IF e = "true"
        THEN LET content == fs_read(f, b.path)
             IN  IF content = None
                 THEN [blob |-> b, ok |-> FALSE, walked |-> FALSE]
                 ELSE [blob |-> [b EXCEPT !.hash = blake3_hash(Unwrap(content))],
                       ok |-> TRUE, walked |-> FALSE]
        ELSE IF e = "false"
        THEN LET w == walk(f, root, b.hash, rev)
             IN  IF w.err # ""
                 THEN [blob |-> b, ok |-> FALSE, walked |-> TRUE]
                 ELSE IF IsSome(w.res)
                 THEN [blob |-> [b EXCEPT !.path = Unwrap(w.res)],
                       ok |-> TRUE, walked |-> TRUE]
                 ELSE [blob |-> b, ok |-> TRUE, walked |-> TRUE]
        ELSE [blob |-> b, ok |-> TRUE, walked |-> FALSE]

(***************************************************************************)
(* SpecBlob: the file system changes, blobs are created and updated.       *)
(***************************************************************************)
\* ret: the last call since the file system last changed: op ("none", "new",
\* "update"), whether it returned Ok, whether it walked the search root, the
\* blob before the call, whether the call before it was an update too, and
\* the arguments Blob::new was given.
NoRet ==
    [op |-> "none", ok |-> TRUE, walked |-> FALSE, old |-> None, again |-> FALSE,
     arg |-> None]

CanCreate(p) ==
    /\ fs[p].kind = "none"
    /\ is_dir(fs, Parent(p))
    /\ Cardinality(Present(fs)) < MaxEntries

\* One entry at a time is abnormal: hidden, failing the hidden-check, or
\* denying access.
FaultsOk(f) == \A p, q \in Faulty(f) : p = q /\ (f[p].hid = "no" \/ ~f[p].denied)

\* A file appears (written, copied or moved in from elsewhere).
FsCreateFile(p, c, h, d) ==
    /\ CanCreate(p)
    /\ fs' = [fs EXCEPT ![p] = FileEntry(c, h, d)]
    /\ FaultsOk(fs')
    /\ ret' = NoRet
    /\ UNCHANGED <<blob, tasks, bridgeVars, appVars>>

\* A directory appears.
FsMkdir(p, h, d) ==
    /\ CanCreate(p)
    /\ \E q \in Paths : Parent(q) = p
    /\ fs' = [fs EXCEPT ![p] = DirEntry(h, d)]
    /\ FaultsOk(fs')
    /\ ret' = NoRet
    /\ UNCHANGED <<blob, tasks, bridgeVars, appVars>>

\* A file or an empty directory is deleted.
FsRemove(p) ==
    /\ fs[p].kind # "none"
    /\ ChildrenOf(fs, p) = {}
    /\ fs' = [fs EXCEPT ![p] = NoEntry]
    /\ ret' = NoRet
    /\ UNCHANGED <<blob, tasks, bridgeVars, appVars>>

\* A file's content is edited in place.
FsEdit(p, c) ==
    /\ fs[p].kind = "file"
    /\ fs[p].content # c
    /\ fs' = [fs EXCEPT ![p].content = c]
    /\ ret' = NoRet
    /\ UNCHANGED <<blob, tasks, bridgeVars, appVars>>

\* A file is moved to a free place.
FsMove(p, q) ==
    /\ fs[p].kind = "file"
    /\ fs[q].kind = "none"
    /\ is_dir(fs, Parent(q))
    /\ fs' = [fs EXCEPT ![q] = fs[p], ![p] = NoEntry]
    /\ ret' = NoRet
    /\ UNCHANGED <<blob, tasks, bridgeVars, appVars>>

\* Blob::new(ty, path).await
BlobNew(ty, p) ==
    LET r == Blob_new(fs, ty, p)
    IN  /\ blob = None
        /\ blob' = IF r.ok THEN r.blob ELSE blob
        /\ ret' = [op |-> "new", ok |-> r.ok, walked |-> FALSE, old |-> blob,
                   again |-> FALSE, arg |-> Some([ty |-> ty, path |-> p])]
        /\ UNCHANGED <<fs, tasks, bridgeVars, appVars>>

\* blob.update(&root)
BlobUpdate(rev) ==
    /\ IsSome(blob)
    /\ LET r == update(fs, Unwrap(blob), Root, rev)
       IN  /\ blob' = Some(r.blob)
           /\ ret' = [op |-> "update", ok |-> r.ok, walked |-> r.walked,
                      old |-> blob, again |-> ret.op = "update", arg |-> None]
    /\ UNCHANGED <<fs, tasks, bridgeVars, appVars>>

NextBlob ==
    \/ \E p \in Paths, c \in Contents, h \in HidValues, d \in BOOLEAN :
           FsCreateFile(p, c, h, d)
    \/ \E p \in Paths, h \in HidValues, d \in BOOLEAN : FsMkdir(p, h, d)
    \/ \E p \in Paths : FsRemove(p)
    \/ \E p \in Paths, c \in Contents : FsEdit(p, c)
    \/ \E p, q \in Paths : FsMove(p, q)
    \/ \E ty \in BlobType, p \in Paths : BlobNew(ty, p)
    \/ \E rev \in BOOLEAN : BlobUpdate(rev)

(***************************************************************************)
(* Background tasks.  Promise::spawn_async / spawn_blocking start a task   *)
(* whose result the promise receives once; a promise is held here as the   *)
(* id of its task.  st is "pending" until the task has sent its result,    *)
(* then "ok" or "err" (the Result's variant) with the payload in val.      *)
(* delivered and reported count what the consuming call sites did with the *)
(* result: handed it to their handler, wrote its error to stderr.          *)
(* replaced records that the slot tracking the task was overwritten.       *)
(***************************************************************************)
NewTask(kind, owner, arg) ==
    [kind |-> kind, owner |-> owner, arg |-> arg, st |-> "pending",
     val |-> None, delivered |-> 0, reported |-> 0, replaced |-> FALSE]
\* Promise::spawn_async: the new task, and the promise that denotes it.
spawn(tk, kind, owner, arg) == Append(tk, NewTask(kind, owner, arg))
spawned(tk) == Some(Len(tk) + 1)
\* The task sends its result; without a receiver the value is dropped.
complete(tk, id, st, val) ==
    [tk EXCEPT ![id].st = st, ![id].arg = None,
               ![id].val = IF tk[id].replaced THEN None ELSE val]
\* Promise::ready: Option<&T>.
ready(tk, id) ==
    IF tk[id].st = "pending" THEN None
    ELSE Some([st |-> tk[id].st, val |-> tk[id].val])
Pending(tk) == {id \in DOMAIN tk : tk[id].st = "pending"}
\* Bookkeeping of one handler invocation / one line on stderr.
deliver(tk, id) == [tk EXCEPT ![id].delivered = @ + 1, ![id].val = None]
report(tk, id) == [tk EXCEPT ![id].reported = @ + 1]

(***************************************************************************)
(* handle_promise (main.rs).  The closure f is applied by the caller to    *)
(* the t returned here: t is the Option<&T> that reached f, and the        *)
(* function's own result is t mapped through f.                            *)
(***************************************************************************)
\* A bridge that hands the result over but keeps the handle.
handle_promise_keep(pr, tk) ==
    [p |-> pr, t |-> IF pr = None THEN None ELSE ready(tk, Unwrap(pr))]

handle_promise(pr, tk) ==
    LET t == IF pr = None THEN None ELSE ready(tk, Unwrap(pr))
        flag == t # None
    IN  [p |-> IF flag THEN None ELSE pr, t |-> t]

(***************************************************************************)
(* SpecBridge: one slot, one handler, polled at arbitrary moments.         *)
(***************************************************************************)
\* Spawns made into the slot, and polls recorded.
MaxBridgeTasks == 2
MaxPolls == 4

\* A handler is any function of the Result's variant.
Handlers == [{"ok", "err"} -> {"x", "y"}]
IdleHandler == [s \in {"ok", "err"} |-> "x"]

BlobIdle ==
    /\ fs = [q \in Paths |-> NoEntry]
    /\ blob = None
    /\ ret = NoRet
BridgeIdle ==
    /\ slot = None
    /\ handler = IdleHandler
    /\ polls = <<>>

BridgeSpawn ==
    /\ slot = None
    /\ Len(tasks) < MaxBridgeTasks
    /\ tasks' = spawn(tasks, "work", 0, None)
    /\ slot' = spawned(tasks)
    /\ UNCHANGED <<handler, polls, blobVars, appVars>>

BridgeComplete(id, st) ==
    /\ id \in Pending(tasks)
    /\ tasks' = complete(tasks, id, st, None)
    /\ UNCHANGED <<bridgeVars, blobVars, appVars>>

BridgePoll ==
    /\ Len(polls) < MaxPolls
    /\ LET h == handle_promise(slot, tasks)
           done == IF slot = None THEN FALSE
                   ELSE tasks[Unwrap(slot)].st # "pending"
           out == IF h.t = None THEN None
                  ELSE Some(handler[Unwrap(h.t).st])
       IN  /\ slot' = h.p
           /\ tasks' = IF h.t = None THEN tasks
                       ELSE deliver(tasks, Unwrap(slot))
           /\ polls' = Append(polls, [id |-> slot, done |-> done,
                                      out |-> out, after |-> h.p])
    /\ UNCHANGED <<handler, blobVars, appVars>>

NextBridge ==
    \/ BridgeSpawn
    \/ \E id \in DOMAIN tasks, st \in {"ok", "err"} : BridgeComplete(id, st)
    \/ BridgePoll

(***************************************************************************)
(* Pinboards and their buffers (pinboard.rs).                              *)
(***************************************************************************)
\* Tasks spawned in one run of the application, pinboard identities that
\* exist, and nodes of one graph.
MaxTasks == 3
MaxUuids == 2
MaxNodes == 1
\* Tasks spawned in one run of SpecRegistry and of SpecRoundTrip.
MaxRegistryTasks == 2
\* Nodes of a pinboard SpecRoundTrip saves.
MaxSavedNodes == 2
\* The nodes a graph holds while it is being edited, and the tasks (file
\* picks, repairs) its editing starts.
MaxEditNodes == 2
MaxEditTasks == 2
\* The nodes of a graph whose nodes are being joined.
MaxConnectNodes == 2
\* The double clicks on a pinboard whose blobs are being repaired.
MaxRepairs == 2
\* Interactions the widget reports in one frame.
MaxBurst == 2

Uuids == 1..MaxUuids
\* The pinboard files the dialogs can name.
Files == {"a.pinbrd", "b.pinbrd"}
\* The blobs a file dialog can produce (add_blob picks the kind from the
\* extension) and a repair can turn them into.
AppBlobs ==
    {Blob("File", "notes.md", blake3_hash(1))}
        \cup {Blob("PinboardGraph", q, blake3_hash(2)) : q \in Files}

\* The titles a pinboard is given: the one new_pinboard gives, and one the
\* user types.
Titles == {"Untitled", "Notes"}
Pinboard(uuid, title, graph) == [uuid |-> uuid, title |-> title, graph |-> graph]
\* Uuid::default(), the nil UUID.
NilUuid == 0
\* A PinboardGraph: node and edge slots by index, a slot being an element
\* or vacant; the vacant slots in the order they will be filled again; and
\* the selection, in the order it was made.
Vacant == [vacant |-> TRUE]
Graph(nodes, edges) ==
    [nodes |-> nodes, edges |-> edges, free_node |-> <<>>, free_edge |-> <<>>,
     selected_nodes |-> <<>>, selected_edges |-> <<>>]
\* PinboardGraph::from(&StableGraph::default()).
EmptyGraph == Graph(<<>>, <<>>)
\* Places on the canvas: where a node is put when added, and another one.
Positions == {"p0", "p1"}
\* A node (payload Option<Blob>, label, location) and an edge (its two
\* endpoints, payload Conn, label) of a PinboardGraph.
GraphNode(payload, label, pos) == [payload |-> payload, label |-> label, pos |-> pos]
Relations == {"Conflict", "Progress", "Insight", "Related"}
\* The relations the editing runs choose between.
EditRelations == {"Conflict", "Related"}
Conn(comment, relation) == [comment |-> comment, relation |-> relation]
GraphEdge(a, b, payload, label) == [a |-> a, b |-> b, payload |-> payload, label |-> label]
(***************************************************************************)
(* serde_json::to_string and from_str over the derived Serialize and       *)
(* Deserialize.  A struct is written as the list of its fields, each a     *)
(* pair <<name, value>>, in the order of declaration, and read back by     *)
(* name; an Option is written as null (the empty list) or as its value in  *)
(* a list of one; a Uuid, a path, a hash and a unit variant are written as *)
(* strings.                                                                *)
(***************************************************************************)
HasField(obj, name) == \E i \in DOMAIN obj : obj[i][1] = name
Field(obj, name) == obj[CHOOSE i \in DOMAIN obj : obj[i][1] = name][2]
\* A value written as a string, tagged with what it is the text of.
Str(tag, v) == [str |-> tag, of |-> v]

Blob_serialize(b) ==
    <<<<"ty", Str("BlobType", b.ty)>>, <<"path", Str("PathBuf", b.path)>>,
      <<"hash", Str("Hash", b.hash)>>>>
Blob_deserialize(j) ==
    Blob(Field(j, "ty").of, Field(j, "path").of, Field(j, "hash").of)
OptionBlob_serialize(o) == IF o = None THEN <<>> ELSE <<Blob_serialize(Unwrap(o))>>
OptionBlob_deserialize(j) == IF j = <<>> THEN None ELSE Some(Blob_deserialize(j[1]))
Conn_serialize(c) ==
    <<<<"comment", OptionBlob_serialize(c.comment)>>,
      <<"relation", Str("Relation", c.relation)>>>>
Conn_deserialize(j) ==
    Conn(OptionBlob_deserialize(Field(j, "comment")), Field(j, "relation").of)
Label_serialize(o) == IF o = None THEN <<>> ELSE <<Str("String", Unwrap(o))>>
Label_deserialize(j) == IF j = <<>> THEN None ELSE Some(j[1].of)
\* The graph: its nodes by index with payload, label and location, its
\* edges by index with endpoints, payload and label.
Node_serialize(n) ==
    <<<<"payload", OptionBlob_serialize(n.payload)>>,
      <<"label", Label_serialize(n.label)>>,
      <<"location", Str("Pos2", n.pos)>>>>
Node_deserialize(j) ==
    GraphNode(OptionBlob_deserialize(Field(j, "payload")),
              Label_deserialize(Field(j, "label")),
              Field(j, "location").of)
Edge_serialize(e) ==
    <<<<"source", e.a>>, <<"target", e.b>>,
      <<"payload", Conn_serialize(e.payload)>>,
      <<"label", Label_serialize(e.label)>>>>
Edge_deserialize(j) ==
    GraphEdge(Field(j, "source"), Field(j, "target"),
              Conn_deserialize(Field(j, "payload")),
              Label_deserialize(Field(j, "label")))
\* A vacant slot is written as null; the order in which vacant slots are
\* filled again is not written, a graph read back fills the lowest first.
Holes(slots) == {i \in DOMAIN slots : slots[i] = <<>>}
RECURSIVE Ascending(_)
Ascending(S) ==
    IF S = {} THEN <<>>
    ELSE LET m == CHOOSE x \in S : \A y \in S : x <= y
         IN  <<m>> \o Ascending(S \ {m})
Graph_serialize(g) ==
    <<<<"nodes", [i \in DOMAIN g.nodes |->
                    IF g.nodes[i] = Vacant THEN <<>>
                    ELSE <<Node_serialize(g.nodes[i])>>]>>,
      <<"edges", [i \in DOMAIN g.edges |->
                    IF g.edges[i] = Vacant THEN <<>>
                    ELSE <<Edge_serialize(g.edges[i])>>]>>,
      <<"selected_nodes", g.selected_nodes>>,
      <<"selected_edges", g.selected_edges>>>>
Graph_deserialize(j) ==
    [nodes |-> [i \in DOMAIN Field(j, "nodes") |->
                   IF Field(j, "nodes")[i] = <<>> THEN Vacant
                   ELSE Node_deserialize(Field(j, "nodes")[i][1])],
     edges |-> [i \in DOMAIN Field(j, "edges") |->
                   IF Field(j, "edges")[i] = <<>> THEN Vacant
                   ELSE Edge_deserialize(Field(j, "edges")[i][1])],
     free_node |-> Ascending(Holes(Field(j, "nodes"))),
     free_edge |-> Ascending(Holes(Field(j, "edges"))),
     selected_nodes |-> Field(j, "selected_nodes"),
     selected_edges |-> Field(j, "selected_edges")]

\* A Pinboard read back without its identity (#[serde(skip)] on uuid).
Pinboard_deserialize_skip_uuid(j) ==
    IF HasField(j, "title") /\ HasField(j, "graph")
    THEN Some(Pinboard(NilUuid, Field(j, "title").of,
                       Graph_deserialize(Field(j, "graph"))))
    ELSE None

\* #[derive(Serialize, Deserialize)] struct Pinboard { uuid, title, graph }.
Pinboard_serialize(pb) ==
    <<<<"uuid", Str("Uuid", pb.uuid)>>, <<"title", Str("String", pb.title)>>,
      <<"graph", Graph_serialize(pb.graph)>>>>
\* Some(pinboard), or None when a field is missing.
Pinboard_deserialize(j) ==
    IF HasField(j, "uuid") /\ HasField(j, "title") /\ HasField(j, "graph")
    THEN Some(Pinboard(Field(j, "uuid").of, Field(j, "title").of,
                       Graph_deserialize(Field(j, "graph"))))
    ELSE None

\* Uuid::new_v4 for a pinboard made now: an identity no pinboard in memory
\* or on disk carries.
KnownUuids(pin, dk) ==
    DOMAIN pin \cup {Field(Unwrap(dk[q]), "uuid").of :
                        q \in {r \in Files : dk[r] # None}}
FreshUuids(pin, dk) == Uuids \ KnownUuids(pin, dk)
new_v4(pin, dk) == CHOOSE u \in FreshUuids(pin, dk) : \A v \in FreshUuids(pin, dk) : u <= v
Pinboard_new(uuid, title, graph) == Pinboard(uuid, title, graph)

PinboardBuffer_new(pinboard, path, unsaved) ==
    [pinboard |-> pinboard, path |-> path, unsaved |-> unsaved,
     events |-> <<>>,
     show_rename_modal |-> FALSE,
     save_file_promise |-> None,
     update_blob_promise |-> None,
     update_blob_and_open_promise |-> None]

\* Either::Node(id) and Either::Edge(id).
EitherNode(id) == [side |-> "Node", id |-> id]
EitherEdge(id) == [side |-> "Edge", id |-> id]

(***************************************************************************)
(* The graph structure behind PinboardGraph (a StableGraph): removing an   *)
(* element leaves its slot vacant and every other index as it was; adding  *)
(* one fills the slot vacated last, or a new slot when none is vacant.     *)
(***************************************************************************)
Occupied(slots) == {i \in DOMAIN slots : slots[i] # Vacant}
InSeq(seq) == {seq[i] : i \in DOMAIN seq}
\* graph.node(id) and graph.edge(id).
graph_node(g, id) ==
    IF id \in Occupied(g.nodes) THEN Some(g.nodes[id]) ELSE None
graph_edge(g, id) ==
    IF id \in Occupied(g.edges) THEN Some(g.edges[id]) ELSE None
\* A sequence without the members of S.
RECURSIVE Without(_, _)
Without(seq, S) ==
    IF seq = <<>> THEN <<>>
    ELSE IF Head(seq) \in S THEN Without(Tail(seq), S)
    ELSE <<Head(seq)>> \o Without(Tail(seq), S)
\* graph.add_node(None): the new node's index and the graph with it.
graph_add_node(g) ==
    IF g.free_node = <<>>
    THEN [id |-> Len(g.nodes) + 1,
          g |-> [g EXCEPT !.nodes = Append(@, GraphNode(None, None, "p0"))]]
    ELSE [id |-> Head(g.free_node),
          g |-> [g EXCEPT !.nodes[Head(g.free_node)] = GraphNode(None, None, "p0"),
                          !.free_node = Tail(@)]]
\* graph.g().find_edge(a, b) on the undirected graph: an edge joining the
\* two nodes, whichever way round it was added.
find_edge(g, a, b) ==
    LET found == {e \in Occupied(g.edges) :
                     {g.edges[e].a, g.edges[e].b} = {a, b}}
    IN  IF found = {} THEN None
        ELSE Some(CHOOSE e \in found : \A f \in found : e <= f)
\* graph.add_edge_with_label(a, b, payload, label).
add_edge_with_label(g, a, b, payload, label) ==
    IF g.free_edge = <<>>
    THEN [g EXCEPT !.edges = Append(@, GraphEdge(a, b, payload, Some(label)))]
    ELSE [g EXCEPT !.edges[Head(g.free_edge)] = GraphEdge(a, b, payload, Some(label)),
                   !.free_edge = Tail(@)]
\* graph.remove_edge(e).
graph_remove_edge(g, e) ==
    IF e \notin Occupied(g.edges) THEN g
    ELSE [g EXCEPT !.edges[e] = Vacant,
                   !.free_edge = <<e>> \o @,
                   !.selected_edges = Without(@, {e})]
\* The edges that end at node n, highest index first.
RECURSIVE Descending(_)
Descending(S) ==
    IF S = {} THEN <<>>
    ELSE LET m == CHOOSE x \in S : \A y \in S : x >= y
         IN  <<m>> \o Descending(S \ {m})
Incident(g, n) == {e \in Occupied(g.edges) : n \in {g.edges[e].a, g.edges[e].b}}
RECURSIVE remove_edges(_, _)
remove_edges(g, es) ==
    IF es = <<>> THEN g ELSE remove_edges(graph_remove_edge(g, Head(es)), Tail(es))
\* graph.remove_node(n): the edges that end at the node go with it.
graph_remove_node(g, n) ==
    IF n \notin Occupied(g.nodes) THEN g
    ELSE LET g1 == remove_edges(g, Descending(Incident(g, n)))
         IN  [g1 EXCEPT !.nodes[n] = Vacant,
                        !.free_node = <<n>> \o @,
                        !.selected_nodes = Without(@, {n})]
RECURSIVE remove_nodes(_, _)
remove_nodes(g, ns) ==
    IF ns = <<>> THEN g ELSE remove_nodes(graph_remove_node(g, Head(ns)), Tail(ns))
\* A click of the widget on a node or an edge selects it, or deselects it.
toggle(sel, i) == IF i \in InSeq(sel) THEN Without(sel, {i}) ELSE Append(sel, i)

\* Assigning to a slot drops the promise it held: the task goes on, its
\* result has no receiver any more.
drop_promise(tk, pr) ==
    IF pr = None THEN tk
    ELSE [tk EXCEPT ![Unwrap(pr)].replaced = TRUE, ![Unwrap(pr)].val = None]

\* A save that keeps tracking the operation already in flight.
save_keep_first(b, tk) ==
    LET tk1 == spawn(tk, "save", b.pinboard.uuid,
                     [path |-> b.path, pinboard |-> b.pinboard])
    IN  IF b.save_file_promise = None
        THEN [buf |-> [b EXCEPT !.save_file_promise = spawned(tk)], tk |-> tk1,
              open |-> TRUE, blob |-> None, panic |-> FALSE]
        ELSE [buf |-> b, tk |-> drop_promise(tk1, spawned(tk)),
              open |-> TRUE, blob |-> None, panic |-> FALSE]

\* PinboardBuffer::save.
save(b, tk) ==
    LET path == b.path
        pinboard == b.pinboard
    IN  [buf |-> [b EXCEPT !.save_file_promise = spawned(tk)],
         tk |-> spawn(drop_promise(tk, b.save_file_promise), "save",
                      pinboard.uuid, [path |-> path, pinboard |-> pinboard]),
         open |-> TRUE, blob |-> None, panic |-> FALSE]

\* PinboardBuffer::add_node.
add_node(b, tk) ==
    LET n == graph_add_node(b.pinboard.graph)
    IN  [buf |-> [b EXCEPT !.pinboard.graph = n.g,
                           !.update_blob_promise = spawned(tk)],
         tk |-> spawn(drop_promise(tk, b.update_blob_promise), "add",
                      b.pinboard.uuid, EitherNode(n.id)),
         open |-> TRUE, blob |-> None, panic |-> FALSE]

\* The blob of the element a double click names: graph.node(id) mapped to
\* its payload, graph.edge(id) to its comment; and the Either that names it.
clicked_blob(g, e) ==
    IF e.ty = "NodeDoubleClick"
    THEN (IF graph_node(g, e.id) = None THEN None
          ELSE Unwrap(graph_node(g, e.id)).payload)
    ELSE (IF graph_edge(g, e.id) = None THEN None
          ELSE Unwrap(graph_edge(g, e.id)).payload.comment)
clicked_either(e) ==
    IF e.ty = "NodeDoubleClick" THEN EitherNode(e.id) ELSE EitherEdge(e.id)

\* Mutant of handle_events: the double click that starts a repair empties
\* the channel, the events published after it are gone.
RECURSIVE handle_events_flush(_, _)
handle_events_flush(b, tk) ==
    IF b.events = <<>>
    THEN [buf |-> b, tk |-> tk, open |-> TRUE, blob |-> None, panic |-> FALSE]
    ELSE LET e == Head(b.events)
             b1 == [b EXCEPT !.events = Tail(@)]
         IN  IF e.ty \in {"NodeDoubleClick", "EdgeDoubleClick"}
             THEN IF b1.path = None
                  THEN [buf |-> b1, tk |-> tk, open |-> TRUE, blob |-> None, panic |-> TRUE]
                  ELSE LET pl == clicked_blob(b1.pinboard.graph, e)
                       IN  IF pl # None
                           THEN [buf |-> [b1 EXCEPT !.update_blob_and_open_promise = spawned(tk),
                                                    !.events = <<>>],
                                 tk |-> spawn(drop_promise(tk, b1.update_blob_and_open_promise),
                                              "upd", b1.pinboard.uuid,
                                              [either |-> clicked_either(e), blob |-> Unwrap(pl)]),
                                 open |-> TRUE, blob |-> None, panic |-> FALSE]
                           ELSE handle_events_flush(b1, tk)
             ELSE IF e.ty = "NodeMove"
             THEN handle_events_flush([b1 EXCEPT !.unsaved = TRUE], tk)
             ELSE handle_events_flush(b1, tk)

\* PinboardBuffer::handle_events: drains the queue, stops at the first
\* double click that starts a repair, panics on a buffer without a path.
RECURSIVE handle_events(_, _)
handle_events(b, tk) ==
    IF b.events = <<>>
    THEN [buf |-> b, tk |-> tk, open |-> TRUE, blob |-> None, panic |-> FALSE]
    ELSE LET e == Head(b.events)
             b1 == [b EXCEPT !.events = Tail(@)]
         IN  IF e.ty \in {"NodeDoubleClick", "EdgeDoubleClick"}
             THEN IF b1.path = None
                  THEN [buf |-> b1, tk |-> tk, open |-> TRUE, blob |-> None,
                        panic |-> TRUE]
                  ELSE LET pl == clicked_blob(b1.pinboard.graph, e)
                       IN  IF pl # None
                           THEN [buf |-> [b1 EXCEPT !.update_blob_and_open_promise
                                                        = spawned(tk)],
                                 tk |-> spawn(drop_promise(tk,
                                                b1.update_blob_and_open_promise),
                                              "upd", b1.pinboard.uuid,
                                              [either |-> clicked_either(e),
                                               blob |-> Unwrap(pl)]),
                                 open |-> TRUE, blob |-> None, panic |-> FALSE]
                           ELSE handle_events(b1, tk)
             ELSE IF e.ty = "NodeMove"
             THEN handle_events([b1 EXCEPT !.unsaved = TRUE], tk)
             ELSE handle_events(b1, tk)

\* blob.path().file_name().
file_name(bl) == bl.path

\* PinboardBuffer::handle_update_blob_to_node.
handle_update_blob_to_node(b, either, bl) ==
    LET g == b.pinboard.graph
        g1 == IF either.side = "Node"
              THEN IF either.id \in Occupied(g.nodes)
                   THEN [g EXCEPT !.nodes[either.id].payload = Some(bl),
                                  !.nodes[either.id].label = Some(file_name(bl))]
                   ELSE g
              ELSE IF either.id \in Occupied(g.edges)
                   THEN [g EXCEPT !.edges[either.id].payload.comment = Some(bl),
                                  !.edges[either.id].label = Some(file_name(bl))]
                   ELSE g
    IN  [b EXCEPT !.pinboard.graph = g1, !.unsaved = TRUE]

\* The context menu of the graph in PinboardBuffer::show.
\* "Delete selected node(s)".
delete_selected_nodes(b) ==
    [b EXCEPT !.pinboard.graph = remove_nodes(@, @.selected_nodes),
              !.unsaved = TRUE]
\* "Connect with" > relation: offered for two selected nodes that no edge
\* joins.
\* Mutant of can_connect: the entry is offered for any two selected nodes.
can_connect_any_two(g) == Len(g.selected_nodes) = 2

can_connect(g) ==
    /\ Len(g.selected_nodes) = 2
    /\ find_edge(g, g.selected_nodes[1], g.selected_nodes[2]) = None
connect_with(b, relation) ==
    [b EXCEPT !.pinboard.graph =
                  add_edge_with_label(@, @.selected_nodes[1], @.selected_nodes[2],
                                      Conn(None, relation), relation),
              !.unsaved = TRUE]
\* "Add to the Edge", for the one selected edge.
add_to_edge(b, tk) ==
    [buf |-> [b EXCEPT !.update_blob_promise = spawned(tk)],
     tk |-> spawn(drop_promise(tk, b.update_blob_promise), "add",
                  b.pinboard.uuid, EitherEdge(b.pinboard.graph.selected_edges[1])),
     open |-> TRUE, blob |-> None, panic |-> FALSE]
\* "Change Relation" > relation, for the one selected edge.
change_relation(b, relation) ==
    LET id == b.pinboard.graph.selected_edges[1]
    IN  [b EXCEPT !.pinboard.graph.edges[id].label = Some(relation),
                  !.pinboard.graph.edges[id].payload.relation = relation,
                  !.unsaved = TRUE]
\* "Delete selected edge(s)".
delete_selected_edges(b) ==
    [b EXCEPT !.pinboard.graph = remove_edges(@, @.selected_edges),
              !.unsaved = TRUE]

\* What the user does to one pinboard window in one frame.
NoInput == [k |-> "none"]
\* What the graph widget publishes: a double click on a node or an edge, a
\* node dragged to another place.
WidgetEvents(b) ==
    LET g == b.pinboard.graph
    IN  {[ty |-> "NodeDoubleClick", id |-> n] : n \in Occupied(g.nodes)}
          \cup {[ty |-> "EdgeDoubleClick", id |-> e] : e \in Occupied(g.edges)}
          \cup UNION {{[ty |-> "NodeMove", id |-> n, to |-> q] :
                          q \in Positions \ {g.nodes[n].pos}} :
                      n \in Occupied(g.nodes)}
\* The widget itself moves the node it reports as moved.
widget(g, e) ==
    IF e.ty = "NodeMove" THEN [g EXCEPT !.nodes[e.id].pos = e.to] ELSE g
\* GraphView::with_events(&self.event_publisher): every interaction of the
\* frame is sent on the unbounded channel, in the order it happened.
RECURSIVE with_events(_, _)
with_events(b, es) ==
    IF es = <<>> THEN b
    ELSE with_events([b EXCEPT !.pinboard.graph = widget(@, Head(es)),
                               !.events = Append(@, Head(es))],
                     Tail(es))
\* The runs of at most n interactions the widget can report in one frame.
RECURSIVE WidgetBursts(_, _)
WidgetBursts(b, n) ==
    IF n = 0 THEN {<<>>}
    ELSE {<<>>} \cup UNION {{<<e>> \o r : r \in WidgetBursts(with_events(b, <<e>>), n - 1)} :
                            e \in WidgetEvents(b)}
\* Close button and graph widget; File > Save and "Add node".
WindowInputs(b) ==
    {[k |-> "close"]}
        \cup {[k |-> "event", e |-> e] :
                 e \in {w \in WidgetEvents(b) : w.ty # "NodeMove"}}
EditInputs(b) ==
    {[k |-> "save"]}
        \cup (IF Cardinality(Occupied(b.pinboard.graph.nodes)) < MaxNodes
              THEN {[k |-> "add_node"]} ELSE {})
\* File > Rename (or F2), and the rename dialog while it is shown: the text
\* field edits the title in place, "Done" closes the dialog.
RenameInputs(b) ==
    IF b.show_rename_modal
    THEN {[k |-> "done"]}
            \cup {[k |-> "type", title |-> t] : t \in Titles \ {b.pinboard.title}}
    ELSE {[k |-> "rename"]}
BufferInputs(b) == WindowInputs(b) \cup EditInputs(b) \cup RenameInputs(b)
\* Clicks that select and deselect, drags, and the entries of the context
\* menu that the selection makes available.
GraphInputs(b) ==
    LET g == b.pinboard.graph
    IN  {[k |-> "select_node", id |-> n] : n \in Occupied(g.nodes)}
          \cup {[k |-> "select_edge", id |-> e] : e \in Occupied(g.edges)}
          \cup {[k |-> "event", e |-> w] :
                   w \in {v \in WidgetEvents(b) : v.ty = "NodeMove"}}
          \cup (IF g.selected_nodes # <<>> THEN {[k |-> "delete_nodes"]} ELSE {})
          \cup (IF can_connect(g)
                THEN {[k |-> "connect", relation |-> r] : r \in Relations}
                ELSE {})
          \cup (IF Len(g.selected_edges) = 1
                THEN {[k |-> "add_to_edge"]}
                       \cup {[k |-> "change_relation", relation |-> r] :
                               r \in Relations}
                ELSE {})
          \cup (IF g.selected_edges # <<>> THEN {[k |-> "delete_edges"]} ELSE {})

\* PinboardBuffer::show_rename_dialog, on what the user does in it.
show_rename_dialog(b, inp) ==
    IF ~b.show_rename_modal THEN b
    ELSE IF inp.k = "type" THEN [b EXCEPT !.pinboard.title = inp.title]
    ELSE IF inp.k = "done"
    THEN [b EXCEPT !.show_rename_modal = FALSE, !.unsaved = TRUE]
    ELSE b

\* The window's closure in PinboardBuffer::show: it runs only while the
\* window is open, and the close button clears the flag.  A frame's work on
\* one buffer is carried as [buf, open, tk, blob, panic].
show_ui(b, open, inp, tk) ==
    IF ~open \/ inp.k = "none"
    THEN [buf |-> b, open |-> open, tk |-> tk, blob |-> None, panic |-> FALSE]
    ELSE IF inp.k = "save"
    THEN [save(b, tk) EXCEPT !.open = open]
    ELSE IF inp.k = "add_node"
    THEN [add_node(b, tk) EXCEPT !.open = open]
    ELSE IF inp.k = "close"
    THEN [buf |-> b, open |-> FALSE, tk |-> tk, blob |-> None, panic |-> FALSE]
    ELSE IF inp.k = "rename"
    THEN [buf |-> [b EXCEPT !.show_rename_modal = TRUE], open |-> open,
          tk |-> tk, blob |-> None, panic |-> FALSE]
    ELSE IF inp.k \in {"type", "done"}
    THEN [buf |-> show_rename_dialog(b, inp), open |-> open,
          tk |-> tk, blob |-> None, panic |-> FALSE]
    ELSE IF inp.k = "select_node"
    THEN [buf |-> [b EXCEPT !.pinboard.graph.selected_nodes = toggle(@, inp.id)],
          open |-> open, tk |-> tk, blob |-> None, panic |-> FALSE]
    ELSE IF inp.k = "select_edge"
    THEN [buf |-> [b EXCEPT !.pinboard.graph.selected_edges = toggle(@, inp.id)],
          open |-> open, tk |-> tk, blob |-> None, panic |-> FALSE]
    ELSE IF inp.k = "delete_nodes"
    THEN [buf |-> delete_selected_nodes(b), open |-> open,
          tk |-> tk, blob |-> None, panic |-> FALSE]
    ELSE IF inp.k = "connect"
    THEN [buf |-> connect_with(b, inp.relation), open |-> open,
          tk |-> tk, blob |-> None, panic |-> FALSE]
    ELSE IF inp.k = "add_to_edge"
    THEN [add_to_edge(b, tk) EXCEPT !.open = open]
    ELSE IF inp.k = "change_relation"
    THEN [buf |-> change_relation(b, inp.relation), open |-> open,
          tk |-> tk, blob |-> None, panic |-> FALSE]
    ELSE IF inp.k = "delete_edges"
    THEN [buf |-> delete_selected_edges(b), open |-> open,
          tk |-> tk, blob |-> None, panic |-> FALSE]
    ELSE IF inp.k = "events"
    THEN [buf |-> with_events(b, inp.es), open |-> open,
          tk |-> tk, blob |-> None, panic |-> FALSE]
    ELSE [buf |-> [b EXCEPT !.pinboard.graph = widget(@, inp.e),
                            !.events = Append(@, inp.e)],
          open |-> open, tk |-> tk, blob |-> None, panic |-> FALSE]

\* self.handle_events() inside show.
show_events(s) == [handle_events(s.buf, s.tk) EXCEPT !.open = s.open]

\* The handler of save_file_promise.
\* Mutant of on_save: the buffer counts as saved once the save has ended,
\* whichever way.
on_save_either_way(s, id, t) ==
    IF t.st = "ok"
    THEN [s EXCEPT !.buf.path = Some(Unwrap(t.val)), !.buf.unsaved = FALSE,
                   !.tk = deliver(@, id)]
    ELSE [s EXCEPT !.buf.unsaved = FALSE, !.tk = report(deliver(@, id), id)]

on_save(s, id, t) ==
    IF t.st = "ok"
    THEN [s EXCEPT !.buf.path = Some(Unwrap(t.val)), !.buf.unsaved = FALSE,
                   !.tk = deliver(@, id)]
    ELSE [s EXCEPT !.tk = report(deliver(@, id), id)]

\* Mutant of on_blob: a failed task marks the buffer dirty all the same.
on_blob_apply_failed(s, id, t) ==
    IF t.st = "ok"
    THEN [s EXCEPT !.buf = handle_update_blob_to_node(
                               @, Unwrap(t.val).either, Unwrap(Unwrap(t.val).blob)),
                   !.tk = deliver(@, id),
                   !.blob = Unwrap(t.val).blob]
    ELSE [s EXCEPT !.buf.unsaved = TRUE, !.tk = report(deliver(@, id), id)]

\* The handler of update_blob_promise and of update_blob_and_open_promise;
\* blob is what the latter's handler returns.
on_blob(s, id, t) ==
    IF t.st = "ok"
    THEN [s EXCEPT !.buf = handle_update_blob_to_node(
                               @, Unwrap(t.val).either, Unwrap(Unwrap(t.val).blob)),
                   !.tk = deliver(@, id),
                   !.blob = Unwrap(t.val).blob]
    ELSE [s EXCEPT !.tk = report(deliver(@, id), id)]

\* The three handle_promise calls of show; h is what handle_promise gave
\* for the slot.
poll_save(s, h) ==
    [(IF h.t = None THEN s
      ELSE on_save(s, Unwrap(s.buf.save_file_promise), Unwrap(h.t)))
     EXCEPT !.buf.save_file_promise = h.p]
poll_update_blob(s, h) ==
    [(IF h.t = None THEN s
      ELSE on_blob(s, Unwrap(s.buf.update_blob_promise), Unwrap(h.t)))
     EXCEPT !.buf.update_blob_promise = h.p, !.blob = None]
poll_update_blob_and_open(s, h) ==
    [(IF h.t = None THEN s
      ELSE on_blob(s, Unwrap(s.buf.update_blob_and_open_promise), Unwrap(h.t)))
     EXCEPT !.buf.update_blob_and_open_promise = h.p]
show_save(s) == poll_save(s, handle_promise(s.buf.save_file_promise, s.tk))
show_update_blob(s) ==
    poll_update_blob(s, handle_promise(s.buf.update_blob_promise, s.tk))
show_update_blob_and_open(s) ==
    poll_update_blob_and_open(
        s, handle_promise(s.buf.update_blob_and_open_promise, s.tk))
\* Mutant of show_promises: the frame stays behind an outstanding save
\* before it looks at the other two slots.
show_promises_save_first(s) ==
    IF s.panic THEN s
    ELSE IF s.buf.save_file_promise # None
            /\ handle_promise(s.buf.save_file_promise, s.tk).t = None
    THEN s
    ELSE show_update_blob_and_open(show_update_blob(show_save(s)))

show_promises(s) ==
    IF s.panic THEN s
    ELSE show_update_blob_and_open(show_update_blob(show_save(s)))

\* Mutant of show: a buffer whose window is closed is not polled.
show_only_open(b, open, inp, tk) ==
    IF open THEN show_promises(show_events(show_ui(b, open, inp, tk)))
    ELSE show_ui(b, open, inp, tk)

\* PinboardBuffer::show: the window, the widget events, the three slots.
show(b, open, inp, tk) == show_promises(show_events(show_ui(b, open, inp, tk)))

(***************************************************************************)
(* PinlabApp (main.rs).                                                    *)
(***************************************************************************)
\* Pinboard::default and PinboardBuffer::default: the nil UUID, no title.
Pinboard_default == Pinboard(NilUuid, "", EmptyGraph)
PinboardBuffer_default == PinboardBuffer_new(Pinboard_default, None, FALSE)

\* Mutant of new_pinboard: the buffer registered is PinboardBuffer::default(),
\* under a key generated apart from it.
new_pinboard_default(pin, dk) ==
    pin @@ (new_v4(pin, dk) :> [buf |-> PinboardBuffer_default, open |-> TRUE])

\* PinlabApp::new_pinboard.
new_pinboard(pin, dk) ==
    LET pinboard == PinboardBuffer_new(
                        Pinboard_new(new_v4(pin, dk), "Untitled", EmptyGraph),
                        None, TRUE)
    IN  pin @@ (pinboard.pinboard.uuid :> [buf |-> pinboard, open |-> TRUE])

\* What the user does in one frame: nothing, a menu entry, or one action in
\* one pinboard window.
MenuInputs == {[on |-> "menu", k |-> "new"], [on |-> "menu", k |-> "open"]}
OnBuffers(pin, edit) ==
    UNION {{[on |-> "buffer", uuid |-> u, ui |-> i] :
               i \in IF edit
                     THEN WindowInputs(pin[u].buf) \cup EditInputs(pin[u].buf)
                     ELSE WindowInputs(pin[u].buf)} :
           u \in {v \in DOMAIN pin : pin[v].open}}
OnBuffersAll(pin) ==
    UNION {{[on |-> "buffer", uuid |-> u, ui |-> i] : i \in BufferInputs(pin[u].buf)} :
           u \in {v \in DOMAIN pin : pin[v].open}}
OnGraphs(pin) ==
    UNION {{[on |-> "buffer", uuid |-> u, ui |-> i] :
               i \in GraphInputs(pin[u].buf) \cup {[k |-> "add_node"]}} :
           u \in {v \in DOMAIN pin : pin[v].open}}
\* Several interactions with one graph widget within a frame.
OnWidgets(pin) ==
    UNION {{[on |-> "buffer", uuid |-> u, ui |-> [k |-> "events", es |-> es]] :
               es \in {r \in WidgetBursts(pin[u].buf, MaxBurst) : Len(r) > 1}} :
           u \in {v \in DOMAIN pin : pin[v].open}}
Inputs(pin) ==
    {[on |-> "none"]} \cup MenuInputs \cup OnBuffersAll(pin) \cup OnGraphs(pin)
\* The inputs that make, name, fill, save and close pinboards, as long as
\* those that start a task find fewer than MaxRegistryTasks started.
Spawns(inp) ==
    IF inp.on = "menu" THEN inp.k = "open"
    ELSE IF inp.on = "buffer" THEN inp.ui.k \in {"save", "add_node"}
    ELSE FALSE
RegistryInputs(pin, tk) ==
    {i \in {[on |-> "none"]} \cup MenuInputs
              \cup {j \in OnBuffersAll(pin) : j.ui.k # "event"} :
        Spawns(i) => Len(tk) < MaxRegistryTasks}
\* The inputs that reach PinlabApp itself, and those of the windows alone.
AppInputs(pin) == {[on |-> "none"]} \cup MenuInputs \cup OnBuffers(pin, FALSE)
WindowOnlyInputs(pin) == {[on |-> "none"]} \cup OnBuffers(pin, TRUE)

\* PinlabApp::show_menu_bar.
show_menu_bar(st, inp, dk) ==
    IF inp.on # "menu" THEN st
    ELSE IF inp.k = "new"
    THEN [st EXCEPT !.pin = new_pinboard(st.pin, dk)]
    ELSE [st EXCEPT !.bto = Append(@, spawned(st.tk)),
                    !.tk = spawn(@, "open", 0, None)]

\* Mutant of show_one: every blob show returns goes to the system's opener.
show_one_opener_only(st, u, r) ==
    LET st1 == [st EXCEPT !.pin[u] = [buf |-> r.buf, open |-> r.open],
                          !.tk = r.tk, !.panic = r.panic]
    IN  IF r.blob = None THEN st1
        ELSE [st1 EXCEPT !.external = @ \cup {Unwrap(r.blob)}]

\* What PinlabApp::update does with one buffer's show: a File blob goes to
\* the system's opener, a PinboardGraph blob starts an open.
show_one(st, u, r) ==
    LET st1 == [st EXCEPT !.pin[u] = [buf |-> r.buf, open |-> r.open],
                          !.tk = r.tk, !.panic = r.panic]
    IN  IF r.blob = None THEN st1
        ELSE IF Unwrap(r.blob).ty = "File"
        THEN [st1 EXCEPT !.external = @ \cup {Unwrap(r.blob)}]
        ELSE [st1 EXCEPT !.bto = Append(@, spawned(r.tk)),
                         !.tk = spawn(@, "open", 0, Some(Unwrap(r.blob).path))]
input_of(inp, u) ==
    IF inp.on = "buffer" THEN (IF inp.uuid = u THEN inp.ui ELSE NoInput)
    ELSE NoInput
\* The loop over self.pinboards.values_mut() in PinlabApp::update, in the
\* order the map yields them.
RECURSIVE show_all(_, _, _)
show_all(order, inp, st) ==
    IF order = <<>> \/ st.panic THEN st
    ELSE show_all(Tail(order), inp,
                  show_one(st, Head(order),
                           show(st.pin[Head(order)].buf, st.pin[Head(order)].open,
                                input_of(inp, Head(order)), st.tk)))

\* Vec::remove(i) on a vector whose positions are counted from 1.
remove(vec, i) == SubSeq(vec, 1, i - 1) \o SubSeq(vec, i + 1, Len(vec))
\* Vec::retain(Option::is_some).
RECURSIVE retain_some(_)
retain_some(vec) ==
    IF vec = <<>> THEN <<>>
    ELSE IF Head(vec) = None THEN retain_some(Tail(vec))
    ELSE <<Head(vec)>> \o retain_some(Tail(vec))

\* Mutant of observe: a promise ready with Err is reported and left in place.
RECURSIVE observe_keep_err(_, _, _)
observe_keep_err(i, vec, acc) ==
    IF i > Len(vec) THEN acc
    ELSE IF vec[i] = None THEN observe_keep_err(i + 1, vec, acc)
    ELSE LET id == Unwrap(vec[i])
             t == ready(acc.tk, id)
         IN  IF t = None THEN observe_keep_err(i + 1, vec, acc)
             ELSE IF Unwrap(t).st = "ok"
             THEN observe_keep_err(i + 1, vec,
                          [acc EXCEPT !.indices = Append(@, i),
                                      !.ok = @ \cup {id}])
             ELSE observe_keep_err(i + 1, vec,
                          [acc EXCEPT !.tk = report(deliver(@, id), id),
                                      !.err = @ \cup {id}])

\* First loop over boards_to_open: remember the positions whose promise is
\* ready with Ok, report and clear those ready with Err.
RECURSIVE observe(_, _, _)
observe(i, vec, acc) ==
    IF i > Len(vec) THEN acc
    ELSE IF vec[i] = None THEN observe(i + 1, vec, acc)
    ELSE LET id == Unwrap(vec[i])
             t == ready(acc.tk, id)
         IN  IF t = None THEN observe(i + 1, vec, acc)
             ELSE IF Unwrap(t).st = "ok"
             THEN observe(i + 1, vec,
                          [acc EXCEPT !.indices = Append(@, i),
                                      !.ok = @ \cup {id}])
             ELSE observe(i + 1, vec,
                          [acc EXCEPT !.vec[i] = None,
                                      !.tk = report(deliver(@, id), id),
                                      !.err = @ \cup {id}])

\* The registry's part of the second loop: an identity already present
\* only has its window reopened, a new one is inserted.
register(pin, buf) ==
    IF buf.pinboard.uuid \in DOMAIN pin
    THEN [pin EXCEPT ![buf.pinboard.uuid].open = TRUE]
    ELSE pin @@ (buf.pinboard.uuid :> [buf |-> buf, open |-> TRUE])
\* remove(i).unwrap().try_take().unwrap_or_else(panic).unwrap() on the
\* element e found at the position.
take(acc, e) ==
    IF e = None THEN [acc EXCEPT !.panic = TRUE]
    ELSE IF acc.tk[Unwrap(e)].st # "ok" THEN [acc EXCEPT !.panic = TRUE]
    ELSE [acc EXCEPT !.pin = register(@, Unwrap(acc.tk[Unwrap(e)].val)),
                     !.tk = deliver(@, Unwrap(e)),
                     !.taken = Append(@, [id |-> Unwrap(e),
                                          uuid |-> Unwrap(acc.tk[Unwrap(e)].val)
                                                       .pinboard.uuid])]
\* Second loop: for every remembered position, remove and take.
RECURSIVE take_all(_, _)
take_all(indices, acc) ==
    IF indices = <<>> \/ acc.panic THEN acc
    ELSE IF Head(indices) > Len(acc.vec) THEN [acc EXCEPT !.panic = TRUE]
    ELSE take_all(Tail(indices),
                  take([acc EXCEPT !.vec = remove(@, Head(indices))],
                       acc.vec[Head(indices)]))

\* PinlabApp::open_pinboard_from_path when the file, if there, is read
\* whole: the text parsed, in a buffer on that path with nothing unsaved.
open_pinboard_from_path(dk, path) ==
    LET pinboard == IF dk[path] = None THEN None
                    ELSE Pinboard_deserialize(Unwrap(dk[path]))
    IN  IF pinboard = None THEN [st |-> "err", val |-> None]
        ELSE [st |-> "ok",
              val |-> Some(PinboardBuffer_new(Unwrap(pinboard), Some(path), FALSE))]

\* PinboardBuffer::save_to_path when the write succeeds: the files after.
save_to_path(dk, pinboard, path) ==
    [dk EXCEPT ![path] = Some(Pinboard_serialize(pinboard))]

\* open_pinboard / open_pinboard_from_path: what the task can send, given
\* the files.  The dialog may be cancelled and the read or the parse may
\* fail; otherwise the buffer holds the file's pinboard, its path, and no
\* unsaved change.
OpenOutcomes(tk, id, dk) ==
    IF tk[id].kind # "open" THEN {}
    ELSE
    LET from == IF tk[id].arg = None THEN Files ELSE {Unwrap(tk[id].arg)}
    IN  {[st |-> "err", val |-> None]} \cup
        {open_pinboard_from_path(dk, q) :
            q \in {r \in from \cap Files :
                      open_pinboard_from_path(dk, r).st = "ok"}}
\* The open tasks still running behind boards_to_open, and the ways some
\* of them can finish while a frame is under way.
PendingOpens(vec, tk) ==
    {id \in Pending(tk) : \E i \in DOMAIN vec : vec[i] = Some(id)}
LateChoices(vec, tk, dk) ==
    UNION {{o \in [L -> UNION {OpenOutcomes(tk, id, dk) : id \in L}] :
                \A id \in L : o[id] \in OpenOutcomes(tk, id, dk)} :
           L \in SUBSET PendingOpens(vec, tk)}
complete_late(tk, late) ==
    [id \in DOMAIN tk |->
        IF id \in DOMAIN late THEN complete(tk, id, late[id].st, late[id].val)[id]
        ELSE tk[id]]

\* The record of a step that was a pass over a collection of promises:
\* which pass, the collection it found, the tasks it saw finished with Ok
\* and with Err, what the second loop took (and registered), and the blobs
\* handed to the system's opener.  Any other step leaves NoFrame.
NoFrame ==
    [pass |-> "none", before |-> <<>>, ok |-> {}, err |-> {}, taken |-> <<>>,
     external |-> {}, pin |-> <<>>, closed |-> {}]

\* The state a frame works on.
FrameState ==
    [pin |-> pinboards, tk |-> tasks, bto |-> boards_to_open, panic |-> FALSE,
     external |-> {}]

\* The buffers whose windows are closed.
Closed(pin) == {u \in DOMAIN pin : ~pin[u].open}

\* The end of the pass over boards_to_open: retain, and the frame's record.
PassEnd(st, o1, o2) ==
    /\ panicked' = o2.panic
    /\ pinboards' = o2.pin
    /\ tasks' = o2.tk
    /\ boards_to_open' = IF o2.panic THEN o2.vec ELSE retain_some(o2.vec)
    /\ frame' = [pass |-> "boards", before |-> st.bto, ok |-> o1.ok,
                 err |-> o1.err, taken |-> o2.taken, external |-> st.external,
                 pin |-> st.pin, closed |-> Closed(pinboards)]

\* The second loop, after the tasks of `late` have finished.
PassTake(st, o1) ==
    \E late \in LateChoices(o1.vec, o1.tk, disk) :
        PassEnd(st, o1,
                take_all(o1.indices,
                         [vec |-> o1.vec, tk |-> complete_late(o1.tk, late),
                          pin |-> st.pin, panic |-> FALSE, taken |-> <<>>]))

\* The pass over boards_to_open that ends PinlabApp::update, on the state
\* the menu bar and the windows left.
Pass(st) ==
    /\ Len(st.tk) <= MaxTasks
    /\ IF st.panic
       THEN /\ panicked' = TRUE
            /\ pinboards' = st.pin
            /\ tasks' = st.tk
            /\ boards_to_open' = st.bto
            /\ frame' = [NoFrame EXCEPT !.pass = "boards", !.before = st.bto,
                                        !.external = st.external,
                                        !.pin = st.pin,
                                        !.closed = Closed(pinboards)]
       ELSE PassTake(st, observe(1, st.bto,
                                 [vec |-> st.bto, tk |-> st.tk,
                                  indices |-> <<>>, ok |-> {}, err |-> {}]))

\* PinlabApp::update: one frame.  Tasks may finish between the two loops
\* over boards_to_open.
Update(inp, order) ==
    /\ ~panicked
    /\ IF inp.on = "buffer" /\ inp.ui.k = "events"
       THEN inp \in OnWidgets(pinboards)
       ELSE inp \in Inputs(pinboards)
    /\ IF inp.on = "menu" THEN inp.k = "new" => FreshUuids(pinboards, disk) # {}
       ELSE TRUE
    /\ Pass(show_all(order, inp, show_menu_bar(FrameState, inp, disk)))
    /\ UNCHANGED <<append_promises, buffers, disk, blobVars, bridgeVars>>

\* The task behind an open-pinboard promise finishes.
CompleteOpen(id, o) ==
    /\ ~panicked
    /\ id \in Pending(tasks)
    /\ tasks[id].kind = "open"
    /\ o \in OpenOutcomes(tasks, id, disk)
    /\ tasks' = complete(tasks, id, o.st, o.val)
    /\ frame' = NoFrame
    /\ UNCHANGED <<pinboards, boards_to_open, append_promises, buffers, disk,
                   panicked, blobVars, bridgeVars>>

\* Mutant of CompleteSave: the task holds the buffer itself, not a clone,
\* and records the path and clears the dirty flag when it has written.
CompleteSave_on_buffer(id, choice, fail) ==
    /\ ~panicked
    /\ id \in Pending(tasks)
    /\ tasks[id].kind = "save"
    /\ LET a == tasks[id].arg
           path == IF a.path # None THEN a.path ELSE choice
       IN  IF path = None \/ fail
           THEN /\ tasks' = complete(tasks, id, "err", None)
                /\ UNCHANGED <<disk, pinboards>>
           ELSE /\ tasks' = complete(tasks, id, "ok", Some(Unwrap(path)))
                /\ disk' = save_to_path(disk, a.pinboard, Unwrap(path))
                /\ pinboards' = [pinboards EXCEPT ![tasks[id].owner].buf.path = path,
                                                  ![tasks[id].owner].buf.unsaved = FALSE]
    /\ frame' = NoFrame
    /\ UNCHANGED <<boards_to_open, append_promises, buffers,
                   panicked, blobVars, bridgeVars>>

\* The task behind save_file_promise finishes: save_to_path, or save_as
\* with the path the user picks (choice = None: cancelled).
CompleteSave(id, choice, fail) ==
    /\ ~panicked
    /\ id \in Pending(tasks)
    /\ tasks[id].kind = "save"
    /\ LET a == tasks[id].arg
           path == IF a.path # None THEN a.path ELSE choice
       IN  IF path = None \/ fail
           THEN /\ tasks' = complete(tasks, id, "err", None)
                /\ UNCHANGED disk
           ELSE /\ tasks' = complete(tasks, id, "ok", Some(Unwrap(path)))
                /\ disk' = save_to_path(disk, a.pinboard, Unwrap(path))
    /\ frame' = NoFrame
    /\ UNCHANGED <<pinboards, boards_to_open, append_promises, buffers,
                   panicked, blobVars, bridgeVars>>

\* The task behind update_blob_promise finishes: add_blob.
CompleteAdd(id, r) ==
    /\ ~panicked
    /\ id \in Pending(tasks)
    /\ tasks[id].kind = "add"
    /\ tasks' = complete(tasks, id, IF r = None THEN "err" ELSE "ok",
                         Some([either |-> tasks[id].arg, blob |-> r]))
    /\ frame' = NoFrame
    /\ UNCHANGED <<pinboards, boards_to_open, append_promises, buffers, disk,
                   panicked, blobVars, bridgeVars>>

\* The task behind update_blob_and_open_promise finishes: blob.update(&root)
\* on the clone taken at the double click.
CompleteUpd(id, r) ==
    /\ ~panicked
    /\ id \in Pending(tasks)
    /\ tasks[id].kind = "upd"
    /\ r # None => Unwrap(r).ty = tasks[id].arg.blob.ty
    /\ tasks' = complete(tasks, id, IF r = None THEN "err" ELSE "ok",
                         Some([either |-> tasks[id].arg.either, blob |-> r]))
    /\ frame' = NoFrame
    /\ UNCHANGED <<pinboards, boards_to_open, append_promises, buffers, disk,
                   panicked, blobVars, bridgeVars>>

(***************************************************************************)
(* MarkdownPreviwer (previewer.rs).                                        *)
(***************************************************************************)
PreviewPaths == {"notes.md"}

\* MarkdownPreviwer::handle_promises: every slot through handle_promise,
\* the handler keeps the buffer of an Ok and does nothing with an Err.
RECURSIVE handle_promises(_, _)
handle_promises(i, acc) ==
    IF i > Len(acc.vec) THEN [acc EXCEPT !.vec = retain_some(@)]
    ELSE LET h == handle_promise(acc.vec[i], acc.tk)
         IN  IF h.t = None
             THEN handle_promises(i + 1, [acc EXCEPT !.vec[i] = h.p])
             ELSE LET id == Unwrap(acc.vec[i])
                      t == Unwrap(h.t)
                  IN  handle_promises(i + 1,
                          [acc EXCEPT !.vec[i] = h.p,
                                      !.tk = deliver(@, id),
                                      !.bufs = IF t.st = "ok"
                                               THEN Append(@, Unwrap(t.val))
                                               ELSE @,
                                      !.seen = @ \cup {id}])

\* MarkdownPreviwer::append.
PreviewAppend(path) ==
    /\ ~panicked
    /\ Len(tasks) < MaxTasks
    /\ tasks' = spawn(tasks, "preview", 0, Some(path))
    /\ append_promises' = Append(append_promises, spawned(tasks))
    /\ frame' = NoFrame
    /\ UNCHANGED <<pinboards, boards_to_open, buffers, disk, panicked,
                   blobVars, bridgeVars>>

\* MarkdownBuffer::new finishes.
CompletePreview(id, ok) ==
    /\ ~panicked
    /\ id \in Pending(tasks)
    /\ tasks[id].kind = "preview"
    /\ tasks' = IF ok
                THEN complete(tasks, id, "ok",
                              Some([title |-> Unwrap(tasks[id].arg)]))
                ELSE complete(tasks, id, "err", None)
    /\ frame' = NoFrame
    /\ UNCHANGED <<pinboards, boards_to_open, append_promises, buffers, disk,
                   panicked, blobVars, bridgeVars>>

\* MarkdownPreviwer::show.
PreviewShow ==
    /\ ~panicked
    /\ LET r == handle_promises(1, [vec |-> append_promises, bufs |-> buffers,
                                    tk |-> tasks, seen |-> {}])
       IN  /\ append_promises' = r.vec
           /\ buffers' = r.bufs
           /\ tasks' = r.tk
           /\ frame' = [NoFrame EXCEPT
                            !.pass = "preview", !.before = append_promises,
                            !.ok = {id \in r.seen : tasks[id].st = "ok"},
                            !.err = {id \in r.seen : tasks[id].st = "err"}]
    /\ UNCHANGED <<pinboards, boards_to_open, disk, panicked, blobVars,
                   bridgeVars>>

(***************************************************************************)
(* The specifications.                                                     *)
(***************************************************************************)
\* A pinboard saved by an earlier run: one node, linking to the file itself.
OldPinboard ==
    Pinboard(1, "Untitled",
             Graph(<<GraphNode(Some(Blob("PinboardGraph", "a.pinbrd",
                                         blake3_hash(2))),
                               Some("a.pinbrd"), "p0")>>,
                   <<>>))

\* PinlabApp::new and MarkdownPreviwer::new.
AppInit ==
    /\ pinboards = <<>>
    /\ boards_to_open = <<>>
    /\ append_promises = <<>>
    /\ buffers = <<>>
    /\ disk = [q \in Files |-> IF q = "a.pinbrd"
                                THEN Some(Pinboard_serialize(OldPinboard))
                                ELSE None]
    /\ panicked = FALSE
    /\ frame = NoFrame

Perms(S) ==
    {s \in [1..Cardinality(S) -> S] : \A i, j \in DOMAIN s : i # j => s[i] # s[j]}
OptionOf(S) == {None} \cup {Some(x) : x \in S}

Init ==
    /\ BlobIdle
    /\ BridgeIdle
    /\ tasks = <<>>
    /\ AppInit

Next ==
    \/ \E inp \in AppInputs(pinboards), order \in Perms(DOMAIN pinboards) :
           Update(inp, order)
    \/ \E id \in DOMAIN tasks :
           \E o \in OpenOutcomes(tasks, id, disk) : CompleteOpen(id, o)
    \/ \E id \in DOMAIN tasks, r \in OptionOf(AppBlobs) : CompleteUpd(id, r)
    \/ \E path \in PreviewPaths : PreviewAppend(path)
    \/ \E id \in DOMAIN tasks, ok \in BOOLEAN : CompletePreview(id, ok)
    \/ PreviewShow

Spec == Init /\ [][Next]_vars

\* One pinboard window, just made by "New" or just loaded from a file.
InitBuffer ==
    /\ BlobIdle
    /\ BridgeIdle
    /\ tasks = <<>>
    /\ boards_to_open = <<>>
    /\ append_promises = <<>>
    /\ buffers = <<>>
    /\ disk = [q \in Files |-> IF q = "a.pinbrd"
                                THEN Some(Pinboard_serialize(OldPinboard))
                                ELSE None]
    /\ panicked = FALSE
    /\ frame = NoFrame
    /\ pinboards \in
         {new_pinboard(<<>>, disk),
          (OldPinboard.uuid :>
              [buf |-> PinboardBuffer_new(OldPinboard, Some("a.pinbrd"), FALSE),
               open |-> TRUE])}

NextBuffer ==
    \/ \E inp \in WindowOnlyInputs(pinboards), order \in Perms(DOMAIN pinboards) :
           Update(inp, order)
    \/ \E id \in DOMAIN tasks :
           \E o \in OpenOutcomes(tasks, id, disk) : CompleteOpen(id, o)
    \/ \E id \in DOMAIN tasks, choice \in OptionOf(Files), fail \in BOOLEAN :
           CompleteSave(id, choice, fail)
    \/ \E id \in DOMAIN tasks, r \in OptionOf(AppBlobs) : CompleteAdd(id, r)
    \/ \E id \in DOMAIN tasks, r \in OptionOf(AppBlobs) : CompleteUpd(id, r)

SpecBuffer == InitBuffer /\ [][NextBuffer]_vars

\* A second pinboard saved by an earlier run.
OtherPinboard == Pinboard(2, "Notes", EmptyGraph)

\* The application as started, beside one or two pinboard files.
InitRegistry ==
    /\ BlobIdle
    /\ BridgeIdle
    /\ tasks = <<>>
    /\ pinboards = <<>>
    /\ boards_to_open = <<>>
    /\ append_promises = <<>>
    /\ buffers = <<>>
    /\ disk \in {[q \in Files |-> IF q = "a.pinbrd"
                                   THEN Some(Pinboard_serialize(OldPinboard))
                                   ELSE o] :
                    o \in {None, Some(Pinboard_serialize(OtherPinboard))}}
    /\ panicked = FALSE
    /\ frame = NoFrame

\* The application driven through everything that makes, names, fills, saves,
\* closes and re-opens pinboards.
NextRegistry ==
    \/ \E inp \in RegistryInputs(pinboards, tasks), order \in Perms(DOMAIN pinboards) :
           Update(inp, order)
    \/ \E id \in DOMAIN tasks :
           \E o \in OpenOutcomes(tasks, id, disk) : CompleteOpen(id, o)
    \/ \E id \in DOMAIN tasks, choice \in OptionOf(Files), fail \in BOOLEAN :
           CompleteSave(id, choice, fail)
    \/ \E id \in DOMAIN tasks, r \in OptionOf(AppBlobs) : CompleteAdd(id, r)

SpecRegistry == InitRegistry /\ [][NextRegistry]_vars

\* The same application with the inputs that load pinboards, close their
\* windows and write their files.
LoadInputs(pin, tk) ==
    {i \in RegistryInputs(pin, tk) :
        i.on = "buffer" => i.ui.k \in {"close", "save"}}
NextLoad ==
    \/ \E inp \in LoadInputs(pinboards, tasks), order \in Perms(DOMAIN pinboards) :
           Update(inp, order)
    \/ \E id \in DOMAIN tasks :
           \E o \in OpenOutcomes(tasks, id, disk) : CompleteOpen(id, o)
    \/ \E id \in DOMAIN tasks, choice \in OptionOf(Files), fail \in BOOLEAN :
           CompleteSave(id, choice, fail)

SpecLoad == InitRegistry /\ [][NextLoad]_vars

\* Pinboards as the editing operations leave them: up to MaxSavedNodes
\* nodes, each a bare node where add_node put it or a node moved elsewhere
\* that carries a blob under its file name, and between the first two
\* possibly an edge, labelled by its relation or carrying a blob under its
\* file name.
SavedBlob == Blob("File", "notes.md", blake3_hash(1))
SavedNodes ==
    {GraphNode(None, None, "p0"),
     GraphNode(Some(SavedBlob), Some(file_name(SavedBlob)), "p1")}
SavedEdges ==
    {GraphEdge(1, 2, Conn(None, "Related"), Some("Related")),
     GraphEdge(1, 2, Conn(Some(SavedBlob), "Conflict"), Some(file_name(SavedBlob)))}
SavedGraphs ==
    UNION {{Graph(ns, es) :
               ns \in [1..n -> SavedNodes],
               es \in IF n < 2 THEN {<<>>} ELSE {<<>>} \cup {<<e>> : e \in SavedEdges}} :
           n \in 0..MaxSavedNodes}
SavedPinboards ==
    {Pinboard(OtherPinboard.uuid, OtherPinboard.title, g) : g \in SavedGraphs}

\* One pinboard window with unsaved changes, on a file or on none yet.
InitRoundTrip ==
    /\ BlobIdle
    /\ BridgeIdle
    /\ tasks = <<>>
    /\ boards_to_open = <<>>
    /\ append_promises = <<>>
    /\ buffers = <<>>
    /\ disk = [q \in Files |-> IF q = "a.pinbrd"
                                THEN Some(Pinboard_serialize(OldPinboard))
                                ELSE None]
    /\ panicked = FALSE
    /\ frame = NoFrame
    /\ \E pb \in SavedPinboards, path \in OptionOf(Files) :
           pinboards = (pb.uuid :> [buf |-> PinboardBuffer_new(pb, path, TRUE),
                                    open |-> TRUE])

\* Saving, and opening what was saved.
RoundTripInputs(pin, tk) ==
    {i \in RegistryInputs(pin, tk) :
        IF i.on = "menu" THEN i.k = "open"
        ELSE IF i.on = "buffer" THEN i.ui.k = "save"
        ELSE TRUE}
NextRoundTrip ==
    \/ \E inp \in RoundTripInputs(pinboards, tasks),
          order \in Perms(DOMAIN pinboards) : Update(inp, order)
    \/ \E id \in DOMAIN tasks, choice \in OptionOf(Files), fail \in BOOLEAN :
           CompleteSave(id, choice, fail)
    \/ \E id \in DOMAIN tasks :
           \E o \in OpenOutcomes(tasks, id, disk) : CompleteOpen(id, o)

SpecRoundTrip == InitRoundTrip /\ [][NextRoundTrip]_vars

\* One pinboard being edited: nodes added, selected, moved, joined and
\* deleted, edges relabelled and deleted, blobs attached and repaired.
InitEdit ==
    /\ InitBuffer
    /\ pinboards = (OldPinboard.uuid :>
                       [buf |-> PinboardBuffer_new(OldPinboard, Some("a.pinbrd"),
                                                   FALSE),
                        open |-> TRUE])
EditingInputs(pin, tk) ==
    {[on |-> "none"]}
        \cup {i \in OnGraphs(pin) \cup OnBuffers(pin, FALSE) :
                 LET g == pin[i.uuid].buf.pinboard.graph
                 IN  /\ i.ui.k # "close"
                     /\ i.ui.k = "add_node"
                          => Cardinality(Occupied(g.nodes)) < MaxEditNodes
                     /\ i.ui.k \in {"add_node", "add_to_edge", "event"}
                          => Len(tk) < MaxEditTasks
                     /\ i.ui.k \in {"connect", "change_relation"}
                          => i.ui.relation \in EditRelations}
NextEdit ==
    \/ \E inp \in EditingInputs(pinboards, tasks),
            order \in Perms(DOMAIN pinboards) :
           Update(inp, order)
    \/ \E id \in DOMAIN tasks, r \in OptionOf(AppBlobs) : CompleteAdd(id, r)
    \/ \E id \in DOMAIN tasks, r \in OptionOf(AppBlobs) : CompleteUpd(id, r)
SpecEdit == InitEdit /\ [][NextEdit]_vars

\* One pinboard of two bare nodes whose graph is built up and taken apart:
\* one node is added (its file pick stays open), nodes are selected, joined
\* and deleted, edges are selected, relabelled and deleted.
TwoNodes ==
    Pinboard(1, "Untitled",
             Graph(<<GraphNode(None, None, "p0"), GraphNode(None, None, "p0")>>,
                   <<>>))
InitConnect ==
    /\ BlobIdle
    /\ BridgeIdle
    /\ tasks = <<>>
    /\ boards_to_open = <<>>
    /\ append_promises = <<>>
    /\ buffers = <<>>
    /\ disk = [q \in Files |-> IF q = "b.pinbrd"
                                THEN Some(Pinboard_serialize(TwoNodes))
                                ELSE None]
    /\ panicked = FALSE
    /\ frame = NoFrame
    /\ pinboards = (TwoNodes.uuid :>
                       [buf |-> PinboardBuffer_new(TwoNodes, Some("b.pinbrd"),
                                                   FALSE),
                        open |-> TRUE])
ConnectInputs(pin, tk) ==
    {[on |-> "none"]}
        \cup {i \in OnGraphs(pin) :
                 LET g == pin[i.uuid].buf.pinboard.graph
                 IN  /\ i.ui.k \notin {"event", "add_to_edge"}
                     /\ i.ui.k = "add_node"
                          => /\ Cardinality(Occupied(g.nodes)) < MaxConnectNodes
                             /\ tk = <<>>
                     /\ i.ui.k \in {"connect", "change_relation"}
                          => i.ui.relation \in EditRelations}
NextConnect ==
    \E inp \in ConnectInputs(pinboards, tasks), order \in Perms(DOMAIN pinboards) :
        Update(inp, order)
SpecConnect == InitConnect /\ [][NextConnect]_vars

\* One saved pinboard with one node, carrying a file or a pinboard: the
\* node is double-clicked, selected, deleted and added again while its
\* repairs run.
FilePinboard ==
    Pinboard(1, "Untitled",
             Graph(<<GraphNode(Some(Blob("File", "notes.md", blake3_hash(1))),
                               Some("notes.md"), "p0")>>,
                   <<>>))
InitRepair ==
    /\ BlobIdle
    /\ BridgeIdle
    /\ tasks = <<>>
    /\ boards_to_open = <<>>
    /\ append_promises = <<>>
    /\ buffers = <<>>
    /\ panicked = FALSE
    /\ frame = NoFrame
    /\ \E pinboard \in {OldPinboard, FilePinboard} :
          /\ disk = [q \in Files |-> IF q = "a.pinbrd"
                                      THEN Some(Pinboard_serialize(pinboard))
                                      ELSE None]
          /\ pinboards = (pinboard.uuid :>
                             [buf |-> PinboardBuffer_new(pinboard, Some("a.pinbrd"),
                                                         FALSE),
                              open |-> TRUE])
RepairInputs(pin, tk) ==
    {[on |-> "none"]}
        \cup {i \in OnGraphs(pin) \cup OnBuffers(pin, FALSE) :
                 /\ i.ui.k \in {"event", "select_node", "delete_nodes", "add_node"}
                 /\ i.ui.k = "event"
                      => /\ i.ui.e.ty = "NodeDoubleClick"
                         /\ Cardinality({id \in DOMAIN tk : tk[id].kind = "upd"})
                               < MaxRepairs
                 /\ i.ui.k = "add_node"
                      => /\ Occupied(pin[i.uuid].buf.pinboard.graph.nodes) = {}
                         /\ {id \in DOMAIN tk : tk[id].kind = "add"} = {}}
NextRepair ==
    \/ \E inp \in RepairInputs(pinboards, tasks),
            order \in Perms(DOMAIN pinboards) :
           Update(inp, order)
    \/ \E id \in DOMAIN tasks, r \in OptionOf(AppBlobs) : CompleteUpd(id, r)
    \/ \E id \in DOMAIN tasks, r \in OptionOf(AppBlobs) : CompleteAdd(id, r)
SpecRepair == InitRepair /\ [][NextRepair]_vars

(***************************************************************************)
(* The event channel of one buffer: a saved pinboard whose node holds a    *)
(* file, a widget that reports up to MaxBurst interactions a frame, and at *)
(* most MaxRepairs double clicks in all.                                   *)
(***************************************************************************)
DoubleClicks(q) ==
    Cardinality({i \in DOMAIN q : q[i].ty \in {"NodeDoubleClick", "EdgeDoubleClick"}})
InitEvents ==
    /\ BlobIdle
    /\ BridgeIdle
    /\ tasks = <<>>
    /\ boards_to_open = <<>>
    /\ append_promises = <<>>
    /\ buffers = <<>>
    /\ panicked = FALSE
    /\ frame = NoFrame
    /\ disk = [q \in Files |-> IF q = "a.pinbrd"
                                 THEN Some(Pinboard_serialize(FilePinboard))
                                 ELSE None]
    /\ pinboards = (FilePinboard.uuid :>
                        [buf |-> PinboardBuffer_new(FilePinboard, Some("a.pinbrd"),
                                                    FALSE),
                         open |-> TRUE])
EventInputs(pin, tk) ==
    {[on |-> "none"]}
        \cup {i \in OnGraphs(pin) \cup OnWidgets(pin) :
                 /\ i.ui.k \in {"event", "events"}
                 /\ DoubleClicks(pin[i.uuid].buf.events)
                       + DoubleClicks(IF i.ui.k = "event" THEN <<i.ui.e>> ELSE i.ui.es)
                       + Cardinality({id \in DOMAIN tk : tk[id].kind = "upd"})
                          <= MaxRepairs}
NextEvents ==
    \/ \E inp \in EventInputs(pinboards, tasks),
            order \in Perms(DOMAIN pinboards) :
           Update(inp, order)
    \/ \E id \in DOMAIN tasks, r \in OptionOf(AppBlobs) : CompleteUpd(id, r)
SpecEvents == InitEvents /\ [][NextEvents]_vars

InitBlob == Init
SpecBlob == InitBlob /\ [][NextBlob]_vars

InitBridge ==
    /\ BlobIdle
    /\ tasks = <<>>
    /\ slot = None
    /\ handler \in Handlers
    /\ polls = <<>>
    /\ AppInit
SpecBridge == InitBridge /\ [][NextBridge]_vars

(***************************************************************************)
(* The promise bridge: what the claims speak of.                           *)
(***************************************************************************)
\* The polls that found the task of the slot finished.
DonePolls(id) == {i \in DOMAIN polls : polls[i].id = Some(id) /\ polls[i].done}

\* C1: a poll made before the spawned work completes returns nothing, does
\* not invoke the handler and leaves the handle in the slot; the first poll
\* after completion invokes the handler exactly once, returns the handler's
\* output and clears the slot; a poll of a cleared slot returns nothing and
\* invokes nothing.
C1_PollContract ==
    /\ \A i \in DOMAIN polls :
          LET e == polls[i]
          IN  IF e.id = None THEN e.out = None /\ e.after = None
              ELSE IF ~e.done THEN e.out = None /\ e.after = e.id
              ELSE /\ e.out = Some(handler[tasks[Unwrap(e.id)].st])
                   /\ e.after = None
    /\ \A id \in DOMAIN tasks :
          /\ tasks[id].delivered = Cardinality(DonePolls(id))
          /\ tasks[id].delivered <= 1
\* A poll before completion, the poll that delivers, and a poll after it.
C1_Witness ==
    \E i \in DOMAIN polls :
        /\ i + 2 \in DOMAIN polls
        /\ polls[i].id # None /\ ~polls[i].done /\ polls[i].out = None
        /\ polls[i + 1].id = polls[i].id /\ polls[i + 1].done
        /\ polls[i + 1].out # None
        /\ polls[i + 2].id = None /\ polls[i + 2].out = None
        /\ tasks[Unwrap(polls[i].id)].delivered = 1

(***************************************************************************)
(* The passes over the collections of promises, and the slots of a buffer. *)
(***************************************************************************)
\* The promises a collection or a slot holds.
InVec(vec) == {Unwrap(vec[i]) : i \in {j \in DOMAIN vec : vec[j] # None}}
SlotsOf(b) ==
    InVec(<<b.save_file_promise, b.update_blob_promise,
            b.update_blob_and_open_promise>>)
Tracked ==
    InVec(boards_to_open) \cup InVec(append_promises)
        \cup UNION {SlotsOf(pinboards[u].buf) : u \in DOMAIN pinboards}
\* The elements of a collection that a pass neither saw finished nor took.
RECURSIVE Untouched(_, _)
Untouched(vec, gone) ==
    IF vec = <<>> THEN <<>>
    ELSE IF Head(vec) = None THEN Untouched(Tail(vec), gone)
    ELSE IF Unwrap(Head(vec)) \in gone THEN Untouched(Tail(vec), gone)
    ELSE <<Head(vec)>> \o Untouched(Tail(vec), gone)
TakenIds == {frame.taken[k].id : k \in DOMAIN frame.taken}

\* C2: the pass over boards_to_open never panics and consumes every handle
\* it saw completed exactly once; every pinboard whose load it saw succeed
\* is registered, with its window open, when the frame ends.
C2_PassConsumesAll ==
    /\ ~panicked
    /\ \A id \in DOMAIN tasks : tasks[id].kind = "open" => tasks[id].delivered <= 1
    /\ frame.pass = "boards" =>
          \A id \in frame.ok :
              /\ tasks[id].delivered = 1
              /\ \E k \in DOMAIN frame.taken :
                    /\ frame.taken[k].id = id
                    /\ frame.taken[k].uuid \in DOMAIN pinboards
                    /\ pinboards[frame.taken[k].uuid].open

\* C3: every task that failed and whose handle has been consumed had its
\* error handed to the handler's error branch and reported, exactly once.
C3_FailuresReported ==
    ~panicked =>
        \A id \in DOMAIN tasks :
            /\ tasks[id].reported <= 1
            /\ (tasks[id].st = "err" /\ id \notin Tracked /\ ~tasks[id].replaced)
                  => tasks[id].delivered = 1 /\ tasks[id].reported = 1

\* C4: after a pass that ran to its end the collection holds no cleared
\* slot and no handle the pass saw completed: exactly the handles still
\* pending, in the order they had.
C4_OnlyPendingRemain ==
    ~panicked =>
        /\ frame.pass = "boards" =>
              boards_to_open = Untouched(frame.before,
                                         frame.ok \cup frame.err \cup TakenIds)
        /\ frame.pass = "preview" =>
              append_promises = Untouched(frame.before, frame.ok \cup frame.err)

\* The tasks started for one slot of one buffer.
StartedFor(kind, uuid) ==
    {id \in DOMAIN tasks : tasks[id].kind = kind /\ tasks[id].owner = uuid}
\* The slot holds nothing, or the handle of the operation started last.
TracksLatest(pr, kind, uuid) ==
    /\ Len(pr) <= 1
    /\ pr # None =>
          /\ Unwrap(pr) \in StartedFor(kind, uuid)
          /\ \A id \in StartedFor(kind, uuid) : id <= Unwrap(pr)
          /\ ~tasks[Unwrap(pr)].replaced

\* C5: each slot of a buffer tracks at most one handle, that of the
\* operation started last; a replaced handle's task is left to run, it is
\* tracked by nothing and its result is never handed to a handler.
C5_ReplacedNeverDelivered ==
    /\ \A u \in DOMAIN pinboards :
          LET b == pinboards[u].buf
          IN  /\ TracksLatest(b.save_file_promise, "save", u)
              /\ TracksLatest(b.update_blob_promise, "add", u)
              /\ TracksLatest(b.update_blob_and_open_promise, "upd", u)
    /\ \A id \in DOMAIN tasks :
          /\ tasks[id].st \in {"pending", "ok", "err"}
          /\ tasks[id].delivered <= 1
          /\ tasks[id].replaced =>
                /\ tasks[id].delivered = 0
                /\ tasks[id].reported = 0
                /\ id \notin Tracked
\* A save replaced by a second one wrote its file all the same; only the
\* second one's result reached the buffer.
C5_Witness ==
    \E u \in DOMAIN pinboards, id1, id2 \in DOMAIN tasks :
        /\ id1 < id2
        /\ {id1, id2} \subseteq StartedFor("save", u)
        /\ tasks[id1].replaced /\ tasks[id1].st = "ok"
        /\ tasks[id1].delivered = 0
        /\ tasks[id2].delivered = 1 /\ tasks[id2].st = "ok"
        /\ pinboards[u].buf.path # None

(***************************************************************************)
(* Blob repair: what the claims speak of, stated on the file system alone. *)
(***************************************************************************)
\* Neither the entry nor a directory above it is hidden or fails the
\* hidden-check (the search root itself is never checked).
Visible(f, p) ==
    /\ f[p].kind # "none"
    /\ \A i \in 1..Len(p) : f[Prefix(p, i)].hid = "no"
\* The files whose content hashes to h: those the walk may see, and those
\* hidden from it.
VisibleMatches(f, h) ==
    {p \in Paths : Visible(f, p) /\ f[p].kind = "file"
                     /\ blake3_hash(f[p].content) = h}
HiddenMatches(f, h) ==
    {p \in Paths : ~Visible(f, p) /\ f[p].kind = "file"
                     /\ blake3_hash(f[p].content) = h}
\* A visible directory that cannot be listed or a visible file that cannot
\* be read.
SearchFault(f) == \E p \in Paths : Visible(f, p) /\ f[p].denied
\* The existence check of the path answers "does not exist".
Stale(f, b) == stat(f, b.path) = "notfound"
ReadableFile(f, p) == stat(f, p) = "ok" /\ f[p].kind = "file" /\ ~f[p].denied
\* The last call was blob.update(root), and the file system is as it was.
Updated == ret.op = "update"
OldBlob == Unwrap(ret.old)
NewBlob == Unwrap(blob)

\* C6 (as stated): the path is gone and exactly one visible file matches the
\* hash, at any depth: update succeeds and sets the path to that file,
\* leaving hash and kind as they were.
C6_UniqueMatchRepairs ==
    (Updated /\ Stale(fs, OldBlob)
        /\ Cardinality(VisibleMatches(fs, OldBlob.hash)) = 1)
    => /\ ret.ok
       /\ NewBlob.path \in VisibleMatches(fs, OldBlob.hash)
       /\ NewBlob.hash = OldBlob.hash
       /\ NewBlob.ty = OldBlob.ty

\* C6 (amended): the same, provided every visible directory of the subtree
\* can be listed and every visible file can be read.
C6_UniqueMatchRepairsReadable ==
    (Updated /\ Stale(fs, OldBlob) /\ ~SearchFault(fs)
        /\ Cardinality(VisibleMatches(fs, OldBlob.hash)) = 1)
    => /\ ret.ok
       /\ NewBlob.path \in VisibleMatches(fs, OldBlob.hash)
       /\ NewBlob.hash = OldBlob.hash
       /\ NewBlob.ty = OldBlob.ty

\* C6 witness: a repair to the single match three levels below the root.
C6_Witness ==
    /\ Updated /\ Stale(fs, OldBlob) /\ ~SearchFault(fs) /\ ret.ok
    /\ VisibleMatches(fs, OldBlob.hash) = {<<1, 1, 1>>}
    /\ NewBlob.path = <<1, 1, 1>>
    /\ Cardinality(Present(fs)) = MaxEntries

\* C7: the path is gone and two or more visible files match the hash,
\* wherever they lie: update fails and leaves path and hash as they were.
C7_AmbiguityFails ==
    (Updated /\ Stale(fs, OldBlob)
        /\ Cardinality(VisibleMatches(fs, OldBlob.hash)) >= 2)
    => ~ret.ok /\ NewBlob = OldBlob

\* C7 witness: the two matches lie in sibling sub-directories, one match
\* each, and the update failed.
C7_Witness ==
    /\ Updated /\ Stale(fs, OldBlob) /\ ~ret.ok /\ ~SearchFault(fs)
    /\ \E a \in {<<1, 1>>, <<1, 2>>} :
           VisibleMatches(fs, OldBlob.hash) = {a, <<2, 1>>}

C9_HiddenNeverMatched ==
    (Updated /\ Stale(fs, OldBlob))
    => /\ NewBlob.path \notin HiddenMatches(fs, OldBlob.hash)
       /\ (/\ HiddenMatches(fs, OldBlob.hash) # {}
           /\ Cardinality(VisibleMatches(fs, OldBlob.hash)) <= 1
           /\ ~SearchFault(fs))
          => ret.ok /\ (VisibleMatches(fs, OldBlob.hash) = {}
                          => NewBlob = OldBlob)

\* C9 witness: one match is hidden from the walk, one is visible, and the
\* repair took the visible one.
C9_Witness ==
    /\ Updated /\ Stale(fs, OldBlob) /\ ret.ok
    /\ HiddenMatches(fs, OldBlob.hash) # {}
    /\ VisibleMatches(fs, OldBlob.hash) = {NewBlob.path}

\* C10: the path exists and is readable: update overwrites the hash with
\* the hash of the current content, leaves the path, never walks the search
\* root, and a second call with the file unchanged changes nothing.
C10_ValidPathRehash ==
    (Updated /\ ReadableFile(fs, OldBlob.path))
    => /\ ret.ok /\ ~ret.walked
       /\ NewBlob = [OldBlob EXCEPT
                        !.hash = blake3_hash(fs[OldBlob.path].content)]
       /\ ret.again => NewBlob = OldBlob

\* C10 witness: two updates in a row of a blob whose file is readable,
\* while another file of the same content exists.
C10_Witness ==
    /\ Updated /\ ret.again /\ ReadableFile(fs, OldBlob.path) /\ ret.ok
    /\ VisibleMatches(fs, NewBlob.hash) # {NewBlob.path}

\* The file a blob names is there, readable, and hashes to h.
HashesTo(f, p, h) == ReadableFile(f, p) /\ blake3_hash(f[p].content) = h

\* C11: whatever the file system went through, a step changes the blob only
\* in these ways: Blob::new sets the hash computed from the content of the
\* file at its path; update changes the hash only to the one computed from
\* the file at the unchanged path, and changes the path only to a visible
\* file whose content hashes to the unchanged hash; a change of the file
\* system changes neither.
C11_NeverUnverified ==
    [][blob' # blob =>
          /\ fs' = fs
          /\ blob' # None
          /\ IF blob = None
             THEN HashesTo(fs, Unwrap(blob').path, Unwrap(blob').hash)
             ELSE LET old == Unwrap(blob)
                      new == Unwrap(blob')
                  IN  /\ new.ty = old.ty
                      /\ new.hash # old.hash =>
                            new.path = old.path /\ HashesTo(fs, old.path, new.hash)
                      /\ new.path # old.path =>
                            /\ new.hash = old.hash
                            /\ HashesTo(fs, new.path, old.hash)
                            /\ Visible(fs, new.path)
                            /\ Stale(fs, old)]_vars

\* C11 witness: a repair moved the blob to the file that hashes to its
\* hash, while a file of another content lies in the subtree.
C11_Witness ==
    /\ Updated /\ ret.ok /\ ret.walked
    /\ NewBlob.path # OldBlob.path
    /\ HashesTo(fs, NewBlob.path, NewBlob.hash)
    /\ NewBlob.hash = blake3_hash(2)
    /\ \E p \in Paths : p # NewBlob.path /\ fs[p].kind = "file"
                            /\ fs[p].content = 1

\* The existence check of the path answers "exists" and reading it fails.
ExistingUnreadable(f, b) == try_exists(f, b.path) = "true" /\ fs_read(f, b.path) = None

\* C12: reading the existing path fails, or the root is walked and a visible
\* directory cannot be listed or a visible file cannot be read: update
\* returns an error and leaves path and hash as they were, even when a
\* single visible file matches the hash.
C12_IoFailureKeepsBlob ==
    (Updated /\ (ExistingUnreadable(fs, OldBlob)
                    \/ (Stale(fs, OldBlob) /\ SearchFault(fs))))
    => ~ret.ok /\ NewBlob = OldBlob

\* C12 witness: the walk failed on an unreadable entry while exactly one
\* visible, readable file matched the hash.
C12_Witness ==
    /\ Updated /\ Stale(fs, OldBlob) /\ SearchFault(fs)
    /\ ~ret.ok /\ ret.walked /\ NewBlob = OldBlob
    /\ \E p \in Paths : VisibleMatches(fs, OldBlob.hash) = {p} /\ ~fs[p].denied

\* C13: the existence check of the path itself errors: update returns Ok
\* without walking the search root and leaves path and hash as they were.
C13_ExistenceErrorIsNoOp ==
    (Updated /\ try_exists(fs, OldBlob.path) = "err")
    => ret.ok /\ ~ret.walked /\ NewBlob = OldBlob

\* C13 witness: the check errored while a single visible, readable file
\* matched the hash, which a walk would have found.
C13_Witness ==
    /\ Updated /\ try_exists(fs, OldBlob.path) = "err"
    /\ ret.ok /\ ~ret.walked /\ NewBlob = OldBlob
    /\ ~SearchFault(fs)
    /\ Cardinality(VisibleMatches(fs, OldBlob.hash)) = 1

\* C14: Blob::new(kind, path) on a readable file returns the blob of that
\* kind and path with the hash of the file's content; on anything else it
\* returns an error and no blob.
C14_NewHashesContent ==
    ret.op = "new" =>
        LET a == Unwrap(ret.arg)
        IN  IF ReadableFile(fs, a.path)
            THEN /\ ret.ok
                 /\ blob = Some(Blob(a.ty, a.path,
                                      blake3_hash(fs[a.path].content)))
            ELSE ~ret.ok /\ blob = None

\* C14 witness: a blob made from a file while a file of another content
\* lies beside it.
C14_Witness ==
    /\ ret.op = "new" /\ ret.ok /\ IsSome(blob)
    /\ \E p \in Paths : fs[p].kind = "file"
                            /\ blake3_hash(fs[p].content) # NewBlob.hash

(***************************************************************************)
(* The registry of pinboards: what the claims speak of.                    *)
(***************************************************************************)
\* Every entry is keyed by the UUID its pinboard carries.
Keyed == \A u \in DOMAIN pinboards : pinboards[u].buf.pinboard.uuid = u
\* The identities the last pass registered or re-opened.
TakenUuids == {frame.taken[k].uuid : k \in DOMAIN frame.taken}

LoadedUuid(id) ==
    IF \E k \in DOMAIN frame.taken : frame.taken[k].id = id
    THEN frame.taken[CHOOSE k \in DOMAIN frame.taken : frame.taken[k].id = id].uuid
    ELSE Unwrap(tasks[id].val).pinboard.uuid
LoadedUuids == {LoadedUuid(id) : id \in frame.ok}

\* C16: at the end of a frame, for every open handle the frame saw completed
\* with a pinboard: if its UUID was registered, the entry's buffer is the
\* one that was there and only its window-open flag is set; if it was not,
\* the registry has gained one entry under that UUID, a clean buffer on the
\* file, with the window open; no other entry was added or changed.
C16_OpenDeduplicates ==
    frame.pass = "boards" =>
        /\ \A u \in LoadedUuids :
              /\ u \in DOMAIN pinboards
              /\ pinboards[u].open
              /\ pinboards[u].buf.pinboard.uuid = u
              /\ IF u \in DOMAIN frame.pin
                 THEN pinboards[u].buf = frame.pin[u].buf
                 ELSE pinboards[u].buf.path # None /\ ~pinboards[u].buf.unsaved
        /\ DOMAIN pinboards = DOMAIN frame.pin \cup LoadedUuids \cup TakenUuids
        /\ \A u \in DOMAIN frame.pin \ (LoadedUuids \cup TakenUuids) :
              pinboards[u] = frame.pin[u]

\* C17: every open handle a frame saw completed with a failure was reported
\* once and is cleared from boards_to_open, and the registry is as the
\* windows left it but for the pinboards the frame took from successful
\* loads: a failed load adds no entry and changes no buffer and no flag.
C17_FailedLoadRegistersNothing ==
    /\ \A id \in DOMAIN tasks : tasks[id].kind = "open" => tasks[id].reported <= 1
    /\ frame.pass = "boards" =>
          /\ \A id \in frame.err :
                /\ tasks[id].reported = 1
                /\ tasks[id].delivered = 1
                /\ id \notin InVec(boards_to_open)
          /\ DOMAIN pinboards = DOMAIN frame.pin \cup TakenUuids
          /\ \A u \in DOMAIN frame.pin \ TakenUuids : pinboards[u] = frame.pin[u]

\* C17 witness: a frame saw a load fail while a pinboard was registered with
\* its window closed; nothing was taken and the registry is as it was.
C17_Witness ==
    /\ frame.pass = "boards" /\ ~panicked
    /\ frame.err # {} /\ frame.ok = {} /\ frame.taken = <<>>
    /\ pinboards = frame.pin
    /\ \E u \in DOMAIN pinboards : ~pinboards[u].open

(***************************************************************************)
(* Saving and loading: what the claims speak of.                           *)
(***************************************************************************)
\* The save tasks that write their file in this step.
Writing(id) ==
    /\ tasks[id].kind = "save"
    /\ tasks[id].st = "pending"
    /\ tasks'[id].st = "ok"

\* C18: whenever save_to_path has written a pinboard to a file, reading that
\* file back with open_pinboard_from_path gives a buffer whose pinboard is
\* the one written (UUID, title, every node's payload, label and position,
\* every edge's payload, label and endpoints), whose path is the file and
\* whose unsaved flag is false.
C18_SaveLoadRoundTrip ==
    [][\A id \in DOMAIN tasks :
          Writing(id) =>
              \E q \in Files :
                  /\ tasks[id].arg.path # None => q = Unwrap(tasks[id].arg.path)
                  /\ tasks'[id].val # None => tasks'[id].val = Some(q)
                  /\ disk'[q] # None
                  /\ open_pinboard_from_path(disk', q) =
                        [st |-> "ok",
                         val |-> Some(PinboardBuffer_new(tasks[id].arg.pinboard,
                                                         Some(q), FALSE))]]_vars

\* C18 witness: a pinboard of two nodes at different places, one carrying a
\* blob, joined by an edge that carries a blob, was saved to a new file and
\* an open task has read it back: what it read is the pinboard in memory.
C18_Witness ==
    \E u \in DOMAIN pinboards, id \in DOMAIN tasks :
        LET b == pinboards[u].buf
            g == b.pinboard.graph
        IN  /\ b.path = Some("b.pinbrd") /\ ~b.unsaved
            /\ b.pinboard.title = "Notes"
            /\ Len(g.nodes) = 2 /\ Len(g.edges) = 1
            /\ g.nodes[1].pos # g.nodes[2].pos
            /\ g.nodes[1].payload # None /\ g.nodes[2].payload = None
            /\ g.edges[1].payload.comment # None
            /\ tasks[id].kind = "open" /\ tasks[id].st = "ok"
            /\ tasks[id].val = Some(PinboardBuffer_new(b.pinboard, b.path, FALSE))

(***************************************************************************)
(* Frames and spawned work.                                                *)
(***************************************************************************)
SlotKinds == {"save", "add", "upd"}
Slot(b, kind) ==
    IF kind = "save" THEN b.save_file_promise
    ELSE IF kind = "add" THEN b.update_blob_promise
    ELSE b.update_blob_and_open_promise
\* The step is a frame in which the loop over the windows ran to its end
\* (no window's handle_events panicked).
WindowsShown ==
    /\ frame'.pass = "boards"
    /\ ~(panicked' /\ frame'.ok = {})

\* C19: a frame never waits for spawned work.  A frame that shows the
\* windows treats each slot by that slot's handle alone: a handle still
\* pending stays in its slot with its task untouched and the frame ends all
\* the same, a completed handle is handed to its handler and leaves the
\* slot, whether or not the other slots' handles have completed.
C19_FrameNeverWaits ==
    [][WindowsShown =>
            \A u \in DOMAIN pinboards, k \in SlotKinds :
                LET pr  == Slot(pinboards[u].buf, k)
                    pr1 == Slot(pinboards'[u].buf, k)
                IN  pr # None =>
                      IF tasks'[Unwrap(pr)].replaced
                      THEN pr1 # None /\ Unwrap(pr1) > Len(tasks)
                      ELSE IF tasks[Unwrap(pr)].st = "pending"
                      THEN pr1 = pr /\ tasks'[Unwrap(pr)] = tasks[Unwrap(pr)]
                      ELSE /\ pr1 = None
                           /\ tasks'[Unwrap(pr)].delivered
                                 = tasks[Unwrap(pr)].delivered + 1]_vars

\* C19 witness: a frame has just ended in which the save started first is
\* still outstanding in its slot, while the node added after it is in the
\* graph and the blob picked for that node has been handed over and applied.
C19_Witness ==
    \E u \in DOMAIN pinboards, h, id \in DOMAIN tasks :
        LET b == pinboards[u].buf
        IN  /\ frame.pass = "boards" /\ ~panicked
            /\ b.save_file_promise = Some(h) /\ tasks[h].st = "pending"
            /\ h < id /\ tasks[id].kind = "add" /\ tasks[id].owner = u
            /\ tasks[id].st = "ok" /\ tasks[id].delivered = 1
            /\ b.update_blob_promise = None
            /\ Len(b.pinboard.graph.nodes) >= 1
            /\ b.pinboard.graph.nodes[Len(b.pinboard.graph.nodes)].payload # None

\* What a task spawned from buffer b captures: save clones the path and the
\* pinboard, a double click clones the blob of the node it names.
Snapshot(t, b) ==
    IF t.kind = "save"
    THEN t.arg = [path |-> b.path, pinboard |-> b.pinboard]
    ELSE IF t.kind = "upd"
    THEN IF t.arg.either.side = "Node"
         THEN /\ t.arg.either.id \in Occupied(b.pinboard.graph.nodes)
              /\ Some(t.arg.blob) = b.pinboard.graph.nodes[t.arg.either.id].payload
         ELSE /\ t.arg.either.id \in Occupied(b.pinboard.graph.edges)
              /\ Some(t.arg.blob)
                    = b.pinboard.graph.edges[t.arg.either.id].payload.comment
    ELSE TRUE

\* C20: spawned work has one snapshot and the buffers have one mutator.  A
\* task started from a buffer holds what that buffer was when the frame
\* that started it began, and holds it unchanged while it runs; a save
\* writes that snapshot and nothing else; and the registry with every
\* buffer's graph, path and unsaved flag changes in frames only, never in
\* the step in which a task finishes.
C20_SingleMutator ==
    [][/\ frame'.pass # "boards" => pinboards' = pinboards
       /\ \A id \in DOMAIN tasks' :
             IF id \in DOMAIN tasks
             THEN (tasks[id].st = "pending" /\ tasks'[id].st = "pending")
                     => tasks'[id].arg = tasks[id].arg
             ELSE tasks'[id].owner \in DOMAIN pinboards
                     => Snapshot(tasks'[id], pinboards[tasks'[id].owner].buf)
       /\ \A id \in DOMAIN tasks :
             Writing(id) =>
                 \E q \in Files :
                     disk' = [disk EXCEPT
                                ![q] = Some(Pinboard_serialize(tasks[id].arg.pinboard))]
      ]_vars

\* C20 witness: a save task has written its file and its result has not been
\* polled yet; the buffer was edited after the save was started, so the
\* file holds the snapshot and not the buffer's pinboard, and the buffer's
\* path has not been touched.
C20_Witness ==
    \E u \in DOMAIN pinboards, id \in DOMAIN tasks, q \in Files :
        LET b == pinboards[u].buf
        IN  /\ tasks[id].kind = "save" /\ tasks[id].owner = u
            /\ tasks[id].st = "ok" /\ tasks[id].val = Some(q)
            /\ b.save_file_promise = Some(id) /\ tasks[id].delivered = 0
            /\ b.path = None
            /\ disk[q] # None
            /\ Pinboard_deserialize(Unwrap(disk[q])) # Some(b.pinboard)
            /\ Pinboard_deserialize(Unwrap(disk[q])) =
                  Some([b.pinboard EXCEPT !.graph = EmptyGraph])

(***************************************************************************)
(* Blob::update as documented.                                             *)
(***************************************************************************)
\* C23: the path is gone and the visible files matching the hash are not
\* exactly one (none at all, or several): update returns an error.
C23_MissIsError ==
    (Updated /\ Stale(fs, OldBlob)
        /\ Cardinality(VisibleMatches(fs, OldBlob.hash)) # 1)
    => ~ret.ok

(***************************************************************************)
(* Closed windows.                                                         *)
(***************************************************************************)
\* A blob result is waiting in one of buffer b's two blob slots.
BlobWaiting(b) ==
    \E k \in {"add", "upd"} :
        /\ Slot(b, k) # None
        /\ tasks[Unwrap(Slot(b, k))].st = "ok"

\* C21: no cancellation on close.  No step removes a buffer from the
\* registry, and a frame that leaves a window closed (closed in it, or
\* before it) still treats each of the buffer's handles as it would for an
\* open window: none is dropped or marked replaced, a pending one stays in
\* its slot with its task untouched, a completed one is consumed by its
\* handler, and a completed successful save sets the path to the path
\* written and clears unsaved (which only a blob result applied later in
\* the same frame sets again).
C21_NoCancelOnClose ==
    [][\A u \in DOMAIN pinboards :
          /\ u \in DOMAIN pinboards'
          /\ (WindowsShown /\ ~pinboards'[u].open) =>
                \A k \in SlotKinds :
                    LET b   == pinboards[u].buf
                        b1  == pinboards'[u].buf
                        pr  == Slot(b, k)
                        pr1 == Slot(b1, k)
                    IN  pr # None =>
                          /\ ~tasks'[Unwrap(pr)].replaced
                          /\ IF tasks[Unwrap(pr)].st = "pending"
                             THEN pr1 = pr /\ tasks'[Unwrap(pr)] = tasks[Unwrap(pr)]
                             ELSE /\ pr1 = None
                                  /\ tasks'[Unwrap(pr)].delivered
                                        = tasks[Unwrap(pr)].delivered + 1
                                  /\ (k = "save" /\ tasks[Unwrap(pr)].st = "ok")
                                        => /\ b1.path = tasks[Unwrap(pr)].val
                                           /\ b1.unsaved = BlobWaiting(b)
      ]_vars

\* C21 witness: a window was closed with a repair of its node's file blob
\* outstanding; the repair completed, and the frame that has just ended
\* found the window already closed, consumed the result, put the blob on
\* the node and handed it to the system's opener.
C21_Witness ==
    \E u \in DOMAIN pinboards, id \in DOMAIN tasks :
        LET b == pinboards[u].buf
        IN  /\ frame.pass = "boards" /\ ~panicked
            /\ u \in frame.closed
            /\ tasks[id].kind = "upd" /\ tasks[id].owner = u
            /\ tasks[id].st = "ok" /\ tasks[id].delivered = 1
            /\ b.update_blob_and_open_promise = None
            /\ frame.external # {}
            /\ \E n \in Occupied(b.pinboard.graph.nodes) :
                   /\ b.pinboard.graph.nodes[n].payload # None
                   /\ Unwrap(b.pinboard.graph.nodes[n].payload) \in frame.external

(***************************************************************************)
(* The graph under editing.                                                *)
(***************************************************************************)
\* The two nodes an edge joins, as an unordered pair.
Ends(e) == {e.a, e.b}
\* No two edges of g join the same unordered pair of nodes.
NoParallelEdges(g) ==
    \A e1, e2 \in Occupied(g.edges) :
        Ends(g.edges[e1]) = Ends(g.edges[e2]) => e1 = e2

\* C22: at most one edge between any unordered pair of nodes.  In every
\* state no graph holds two edges joining the same two nodes, and a frame
\* that adds an edge found exactly two nodes selected with no edge between
\* them in either direction, and adds one edge, between those two.
C22_AtMostOneEdge ==
    /\ [](\A u \in DOMAIN pinboards :
              NoParallelEdges(pinboards[u].buf.pinboard.graph))
    /\ [][\A u \in DOMAIN pinboards :
             LET g  == pinboards[u].buf.pinboard.graph
                 g1 == pinboards'[u].buf.pinboard.graph
                 new == Occupied(g1.edges) \ Occupied(g.edges)
             IN  new # {} =>
                   /\ Len(g.selected_nodes) = 2
                   /\ \A e \in Occupied(g.edges) :
                          Ends(g.edges[e]) # InSeq(g.selected_nodes)
                   /\ Cardinality(new) = 1
                   /\ \A e \in new : Ends(g1.edges[e]) = InSeq(g.selected_nodes)
          ]_vars

\* C22 witness: two nodes are joined by one edge, made from the second to
\* the first and since relabelled, and the two are now selected in the
\* other order, first then second.
C22_Witness ==
    \E u \in DOMAIN pinboards :
        LET g == pinboards[u].buf.pinboard.graph
        IN  /\ Occupied(g.nodes) = {1, 2}
            /\ g.selected_nodes = <<1, 2>>
            /\ Occupied(g.edges) = {1}
            /\ g.edges[1].a = 2 /\ g.edges[1].b = 1
            /\ g.edges[1].payload.relation = "Conflict"
            /\ g.edges[1].label = Some("Conflict")
            /\ g.selected_edges = <<1>>

(***************************************************************************)
(* Saving.                                                                 *)
(***************************************************************************)
\* The frame hands a blob result to buffer b: one of its two blob slots
\* holds a successful result and the frame does not replace that handle.
BlobApplied(b) ==
    \E k \in {"add", "upd"} :
        /\ Slot(b, k) # None
        /\ tasks[Unwrap(Slot(b, k))].st = "ok"
        /\ ~tasks'[Unwrap(Slot(b, k))].replaced

\* C24: save outcome handling.  A frame that finds a buffer's save handle
\* completed and does not replace it: on success the path becomes the path
\* written and unsaved becomes false (only a blob result applied after it
\* in the same frame sets it again); on failure (write error, or a
\* dismissed dialog) the failure is reported, the path is unchanged, a set
\* unsaved flag stays set, and when nothing else reaches the buffer in that
\* frame the unsaved flag and the pinboard are unchanged.  A save task
\* started with a path writes that path, whatever a dialog would give.
C24_SaveOutcome ==
    [][/\ WindowsShown =>
            \A u \in DOMAIN pinboards :
                LET b  == pinboards[u].buf
                    b1 == pinboards'[u].buf
                    pr == b.save_file_promise
                IN  (/\ pr # None
                     /\ tasks[Unwrap(pr)].st # "pending"
                     /\ ~tasks'[Unwrap(pr)].replaced) =>
                       IF tasks[Unwrap(pr)].st = "ok"
                       THEN /\ b1.path = tasks[Unwrap(pr)].val
                            /\ b1.unsaved = BlobApplied(b)
                       ELSE /\ b1.path = b.path
                            /\ b.unsaved => b1.unsaved
                            /\ tasks'[Unwrap(pr)].reported
                                  = tasks[Unwrap(pr)].reported + 1
                            /\ (~BlobApplied(b) /\ Len(tasks') = Len(tasks))
                                  => /\ b1.unsaved = b.unsaved
                                     /\ b1.pinboard = b.pinboard
       /\ \A id \in DOMAIN tasks :
             (Writing(id) /\ tasks[id].arg.path # None) =>
                 /\ tasks[id].replaced \/ tasks'[id].val = tasks[id].arg.path
                 /\ disk' = [disk EXCEPT
                               ![Unwrap(tasks[id].arg.path)] =
                                   Some(Pinboard_serialize(tasks[id].arg.pinboard))]
      ]_vars

\* C24 witness: a buffer loaded from a file was made dirty by a repaired
\* blob; a first save failed and was reported, leaving it dirty; a second
\* save succeeded, and the buffer now has its old path, is not unsaved, and
\* the file holds its pinboard.
C24_Witness ==
    \E u \in DOMAIN pinboards, h, id \in DOMAIN tasks :
        LET b == pinboards[u].buf
        IN  /\ frame.pass = "boards" /\ ~panicked
            /\ h < id
            /\ tasks[h].kind = "save" /\ tasks[h].owner = u
            /\ tasks[h].st = "err" /\ tasks[h].delivered = 1
            /\ tasks[h].reported = 1
            /\ tasks[id].kind = "save" /\ tasks[id].owner = u
            /\ tasks[id].st = "ok" /\ tasks[id].delivered = 1
            /\ b.save_file_promise = None
            /\ b.path = Some("a.pinbrd") /\ ~b.unsaved
            /\ b.pinboard # OldPinboard
            /\ disk["a.pinbrd"] = Some(Pinboard_serialize(b.pinboard))

\* C25: an edit made between the start of a save and the frame in which
\* its completion is observed is still reported as unsaved afterwards.  A
\* frame that consumes a successful save leaves the buffer unsaved unless
\* the file written holds the buffer's pinboard as it is after that frame.
C25_EditDuringSaveStaysDirty ==
    [][WindowsShown =>
          \A u \in DOMAIN pinboards :
              LET b1 == pinboards'[u].buf
                  pr == pinboards[u].buf.save_file_promise
              IN  (/\ pr # None
                   /\ tasks[Unwrap(pr)].st = "ok"
                   /\ ~tasks'[Unwrap(pr)].replaced
                   /\ disk[Unwrap(tasks[Unwrap(pr)].val)]
                         # Some(Pinboard_serialize(b1.pinboard)))
                  => b1.unsaved
      ]_vars

(***************************************************************************)
(* The dirty flag.                                                         *)
(***************************************************************************)
\* C26: every operation that mutates the in-memory pinboard marks the
\* buffer dirty no later than the frame in which the mutation is applied.
\* A frame that changes a buffer's pinboard (a node added, moved or
\* deleted, an edge added, relabelled or deleted, a blob attached or
\* updated, the title edited) and consumes no successful save ends with
\* that buffer unsaved.
C26_MutationMarksDirty ==
    [][WindowsShown =>
          \A u \in DOMAIN pinboards :
              LET b  == pinboards[u].buf
                  b1 == pinboards'[u].buf
                  pr == b.save_file_promise
              IN  (/\ [b1.pinboard EXCEPT !.graph.selected_nodes = <<>>,
                                          !.graph.selected_edges = <<>>]
                        # [b.pinboard EXCEPT !.graph.selected_nodes = <<>>,
                                             !.graph.selected_edges = <<>>]
                   /\ ~(pr # None /\ tasks[Unwrap(pr)].st = "ok"))
                  => b1.unsaved
      ]_vars

(***************************************************************************)
(* Blob results and the elements they were spawned for.                    *)
(***************************************************************************)
\* The node a completed repair names, and whether buffer b holds a node
\* there that carries a blob.  A repair is only ever spawned for a node
\* that carries a blob, and a node never loses its blob while it is in the
\* graph: a vacant index, or a node without a blob, is not the node the
\* repair was spawned for.
RepairedNode(t) == Unwrap(t.val).either.id
HoldsBlob(b, n) ==
    /\ n \in Occupied(b.pinboard.graph.nodes)
    /\ b.pinboard.graph.nodes[n].payload # None

\* C27: a completed blob result is applied only to the node or edge it was
\* spawned for.  A frame that consumes a successful repair of a node which
\* has been removed since (its index is vacant, or names a node without a
\* blob that was added after the removal), and applies no file pick, puts
\* no blob and no label on whatever node has that index.
C27_ResultOnlyForItsElement ==
    [][WindowsShown =>
          \A u \in DOMAIN pinboards :
              LET b  == pinboards[u].buf
                  b1 == pinboards'[u].buf
                  pr == b.update_blob_and_open_promise
                  ad == b.update_blob_promise
              IN  (/\ pr # None
                   /\ tasks[Unwrap(pr)].st = "ok"
                   /\ ~tasks'[Unwrap(pr)].replaced
                   /\ Unwrap(tasks[Unwrap(pr)].val).either.side = "Node"
                   /\ ~HoldsBlob(b, RepairedNode(tasks[Unwrap(pr)]))
                   /\ ~(ad # None /\ tasks[Unwrap(ad)].st = "ok"))
                  => ~HoldsBlob(b1, RepairedNode(tasks[Unwrap(pr)]))
      ]_vars

(***************************************************************************)
(* Double clicks.                                                          *)
(***************************************************************************)
\* C28: handling a node or edge double-click never aborts the frame.  No
\* frame ends in a panic raised while the windows are shown.
C28_DoubleClickNeverAborts ==
    [][frame'.pass = "boards" => ~(panicked' /\ frame'.ok = {})]_vars

\* What a frame opens for its buffers: the blobs handed to the system's
\* opener and the open-pinboard tasks it starts.
OpensStarted ==
    {id \in DOMAIN tasks' \ DOMAIN tasks : tasks'[id].kind = "open"}

\* C29: a failed repair on double-click changes nothing in the buffer.  A
\* frame that consumes an update-and-open task that completed with an
\* error reports it, opens nothing (no blob goes to the opener, no
\* open-pinboard task is started), keeps a set unsaved flag set, and, when
\* nothing else reaches the buffer in that frame, leaves the pinboard (every
\* element's blob and label) and the unsaved flag as they were.
C29_FailedRepairChangesNothing ==
    [][WindowsShown =>
          \A u \in DOMAIN pinboards :
              LET b  == pinboards[u].buf
                  b1 == pinboards'[u].buf
                  pr == b.update_blob_and_open_promise
                  ad == b.update_blob_promise
                  sv == b.save_file_promise
              IN  (/\ pr # None
                   /\ tasks[Unwrap(pr)].st = "err"
                   /\ ~tasks'[Unwrap(pr)].replaced) =>
                     /\ tasks'[Unwrap(pr)].reported = tasks[Unwrap(pr)].reported + 1
                     /\ tasks'[Unwrap(pr)].delivered = tasks[Unwrap(pr)].delivered + 1
                     /\ b1.update_blob_and_open_promise = None
                     /\ frame'.external = {}
                     /\ OpensStarted = {}
                     /\ (~(ad # None /\ tasks[Unwrap(ad)].st = "ok")
                           /\ ~(sv # None /\ tasks[Unwrap(sv)].st = "ok")
                           /\ Len(tasks') = Len(tasks))
                          => /\ b1.pinboard = b.pinboard
                             /\ b1.unsaved = b.unsaved
                             /\ b1.path = b.path
      ]_vars

\* C29 witness: the node of a saved, clean pinboard was double-clicked, the
\* repair failed, and the frame that has just ended consumed and reported
\* the failure: the node has the blob and label it had, the buffer is still
\* clean, nothing was opened.
C29_Witness ==
    \E u \in DOMAIN pinboards, id \in DOMAIN tasks :
        LET b == pinboards[u].buf
        IN  /\ frame.pass = "boards" /\ ~panicked
            /\ tasks[id].kind = "upd" /\ tasks[id].owner = u
            /\ tasks[id].st = "err"
            /\ tasks[id].delivered = 1 /\ tasks[id].reported = 1
            /\ b.update_blob_and_open_promise = None
            /\ b.pinboard = OldPinboard
            /\ ~b.unsaved
            /\ frame.external = {}
            /\ \A h \in DOMAIN tasks : tasks[h].kind # "open"

\* The blob on the element `either` names in buffer b, if the index names
\* an element.
TargetIn(b, either) ==
    IF either.side = "Node"
    THEN either.id \in Occupied(b.pinboard.graph.nodes)
    ELSE either.id \in Occupied(b.pinboard.graph.edges)
TargetBlob(b, either) ==
    IF either.side = "Node"
    THEN b.pinboard.graph.nodes[either.id].payload
    ELSE b.pinboard.graph.edges[either.id].payload.comment
\* What the frame opens is what show returned for the blob bl, and nothing
\* else: a File goes to the system's opener, a PinboardGraph starts one
\* open-pinboard task for its path, whose handle joins boards_to_open (the
\* task may already have finished when the frame ends).
OpenedFor(bl) ==
    IF bl.ty = "File"
    THEN frame'.external = {bl} /\ OpensStarted = {}
    ELSE /\ frame'.external = {}
         /\ \E id \in OpensStarted :
                /\ OpensStarted = {id}
                /\ tasks'[id].st = "pending"
                     => /\ tasks'[id].arg = Some(bl.path)
                        /\ \E i \in DOMAIN boards_to_open' :
                               boards_to_open'[i] = Some(id)
\* A frame delivers a successful update-and-open result once: the handle
\* leaves the slot, the task has been handed over once and never before,
\* and the frame opens its blob; a frame without such a result opens nothing.
\* When the blob is returned the element at the index the task names holds
\* it: an element is there and holds it (present = TRUE), or the element
\* there, if any, holds it.
DeliveredOnce(present) ==
    \A u \in DOMAIN pinboards :
        LET b  == pinboards[u].buf
            b1 == pinboards'[u].buf
            pr == b.update_blob_and_open_promise
        IN  IF /\ pr # None
               /\ tasks[Unwrap(pr)].st = "ok"
               /\ ~tasks'[Unwrap(pr)].replaced
            THEN LET val == Unwrap(tasks[Unwrap(pr)].val)
                 IN  /\ tasks[Unwrap(pr)].delivered = 0
                     /\ tasks'[Unwrap(pr)].delivered = 1
                     /\ b1.update_blob_and_open_promise = None
                     /\ present => TargetIn(b1, val.either)
                     /\ TargetIn(b1, val.either)
                           => TargetBlob(b1, val.either) = val.blob
                     /\ OpenedFor(Unwrap(val.blob))
            ELSE frame'.external = {} /\ OpensStarted = {}


StartsRepair(b, e) ==
    /\ e.ty \in {"NodeDoubleClick", "EdgeDoubleClick"}
    /\ clicked_blob(b.pinboard.graph, e) # None
Handled(b, q) ==
    LET stops == {i \in DOMAIN q : StartsRepair(b, q[i])}
    IN  IF stops = {} THEN Len(q)
        ELSE CHOOSE i \in stops : \A j \in stops : i <= j
DrainedInOrder(b, after, tk, tkAfter, es) ==
    LET sent == with_events(b, es)
        q == sent.events
        k == Handled(sent, q)
        moved == \E i \in 1..k : q[i].ty = "NodeMove"
        delivered == \E id \in DOMAIN tk : tkAfter[id].delivered # tk[id].delivered
    IN  /\ after.events = SubSeq(q, k + 1, Len(q))
        /\ q # <<>> => Len(after.events) < Len(q)
        /\ \A n \in Occupied(sent.pinboard.graph.nodes) :
               after.pinboard.graph.nodes[n].pos = sent.pinboard.graph.nodes[n].pos
        /\ moved => after.unsaved
        /\ after.unsaved => b.unsaved \/ moved \/ delivered
        /\ IF k > 0 /\ StartsRepair(sent, q[k])
           THEN /\ Len(tkAfter) = Len(tk) + 1
                /\ after.update_blob_and_open_promise = Some(Len(tkAfter))
                /\ tkAfter[Len(tkAfter)].kind = "upd"
                /\ tkAfter[Len(tkAfter)].arg.either = clicked_either(q[k])
           ELSE Len(tkAfter) = Len(tk)
FrameDrainsInOrder ==
    WindowsShown
        => \A u \in DOMAIN pinboards :
              /\ u \in DOMAIN pinboards'
              /\ \E es \in WidgetBursts(pinboards[u].buf, MaxBurst) :
                    DrainedInOrder(pinboards[u].buf, pinboards'[u].buf,
                                   tasks, tasks', es)

\* C31: no widget event is lost.  Every frame handles the events of the
\* channel from its head, in the order they were published, and stops
\* behind the first double click that starts an update task; the events
\* behind it stay in the channel in their order, a NodeMove among them has
\* not marked the buffer unsaved yet and does so in the frame that reaches
\* it; and a frame that finds events in the channel handles at least the
\* first of them, so that the frames to come reach every one.
C31_NoEventLost == [][FrameDrainsInOrder]_vars
\* A frame has just ended in which a double click started an update task
\* that is still running, and the NodeMove published behind it waits at the
\* head of the channel: the node has moved, the buffer is not unsaved yet.
C31_Witness ==
    /\ frame.pass = "boards"
    /\ \E u \in DOMAIN pinboards :
          LET b == pinboards[u].buf
          IN  /\ b.events # <<>>
              /\ Head(b.events).ty = "NodeMove"
              /\ b.pinboard.graph.nodes[Head(b.events).id].pos = Head(b.events).to
              /\ ~b.unsaved
              /\ b.update_blob_and_open_promise # None
              /\ Unwrap(b.update_blob_and_open_promise) \in Pending(tasks)
              /\ tasks[Unwrap(b.update_blob_and_open_promise)].kind = "upd"
=============================================================================
